---- MODULE Spec2Model ----
(***************************************************************************)
(* A model of the label printer backend: the CEPNet codec of               *)
(* services/correios_codes.py and the address formatter and page layouts   *)
(* of label_generator.py.                                                  *)
(*                                                                         *)
(* Text is modelled as a sequence of one-character strings, so that        *)
(* slicing, stripping, upper-casing and concatenation are computed         *)
(* character by character as Python computes them.                         *)
(***************************************************************************)
EXTENDS Integers, Sequences, FiniteSets, TLC

VARIABLES
    op,                 \* the operation invoked last
    result,             \* what the last call returned or raised
    cep,                \* codec: the postal code handed to the codec
    endereco,           \* the address dict handed to the formatter or a layout
    nome,               \* the fallback display name (cliente_nome)
    remetente,          \* LabelGenerator.remetente
    config,             \* LabelGenerator.config
    tipo,               \* the size or layout identifier of a layout call
    include_barcode,    \* flag of a layout call
    include_remetente,  \* flag of a layout call
    labels_data,        \* generate_pimaco_sheet: the batch
    label_index,        \* generate_pimaco_sheet: local of the loop
    row,                \* generate_pimaco_sheet: local of the loop
    col,                \* generate_pimaco_sheet: local of the loop
    pc,                 \* generate_pimaco_sheet: where the call stands
    cells,              \* generate_pimaco_sheet: the _draw_label_content calls made
    pages,              \* canvas: the pages closed so far
    page,               \* canvas: what is drawn on the open page
    args,               \* the further arguments of the last call
    io_fail,            \* the barcode renders whose raster write or drawImage raises
    files,              \* settings.LABELS_DIR: the image held by each path
    now,                \* datetime.now().timestamp()
    threads,            \* the locals of each running _draw_cepnet call
    seen,               \* the values of self.remetente read by the running call
    settings,           \* SystemSettings.settings
    DEFAULT_SETTINGS,   \* SystemSettings.DEFAULT_SETTINGS, a class attribute
    aliased,            \* the sections whose dict is one object in both
    disk,               \* the contents of CONFIG_FILE
    db                  \* the rows of the tables clientes and enderecos

argVars == <<cep, endereco, nome, args>>
genVars == <<remetente, config>>
callVars == <<tipo, include_barcode, include_remetente>>
sheetVars == <<labels_data, label_index, row, col, pc, cells>>
canvasVars == <<pages, page>>
envVars == <<io_fail, files, now>>
threadVars == <<threads, seen>>
settingsVars == <<settings, DEFAULT_SETTINGS, aliased, disk>>
dbVars == <<db>>
sideVars == <<envVars, threadVars, settingsVars, dbVars>>
vars == <<op, result, cep, endereco, nome, remetente, config, tipo,
          include_barcode, include_remetente, labels_data, label_index,
          row, col, pc, cells, pages, page, args, io_fail, files, now,
          threads, seen, settings, DEFAULT_SETTINGS, aliased, disk, db>>

(***************************************************************************)
(* Python primitives                                                       *)
(***************************************************************************)

\* the characters matched by \d
DigitChars == {"0", "1", "2", "3", "4", "5", "6", "7", "8", "9"}

DigitSeq == <<"0", "1", "2", "3", "4", "5", "6", "7", "8", "9">>

\* int(d) of a one-character digit string
DigitValue(ch) == CHOOSE n \in 0..9 : DigitSeq[n + 1] = ch

\* str(n) of a non-negative integer: its decimal digits
RECURSIVE Str(_)
Str(n) == IF n < 10 THEN <<DigitSeq[n + 1]>>
          ELSE Str(n \div 10) \o <<DigitSeq[(n % 10) + 1]>>

\* s[:n] for n >= 0
Take(s, n) == SubSeq(s, 1, IF Len(s) < n THEN Len(s) ELSE n)

\* s[n:] for n >= 0
Drop(s, n) == SubSeq(s, n + 1, Len(s))

\* re.sub(r'\D', '', s)
StripNonDigits(s) == SelectSeq(s, LAMBDA ch : ch \in DigitChars)

RECURSIVE SumSeq(_)
SumSeq(s) == IF s = <<>> THEN 0 ELSE s[1] + SumSeq(Tail(s))

RECURSIVE Concat(_)
Concat(ss) == IF ss = <<>> THEN <<>> ELSE ss[1] \o Concat(Tail(ss))

\* a dict is a function from its keys; {} is the function with no keys
EmptyDict == [k \in {} |-> <<>>]

\* the value None where a text may stand
None == <<"None">>

\* self.remetente = None
NoRemetente == [None |-> <<>>]

\* marks a key that a dict built by MkDict leaves out
Absent == <<"Absent">>

MkDict(fields) ==
    [k \in {j \in DOMAIN fields : fields[j] # Absent} |-> fields[k]]

\* d.get(k, default)
Get(d, k, default) == IF k \in DOMAIN d THEN d[k] ELSE default

\* truth value of a text or None
Truthy(v) == v # None /\ v # <<>>

LowerChars == <<"a", "b", "c", "d", "e", "f", "g", "h", "i", "j", "k", "l", "m",
                "n", "o", "p", "q", "r", "s", "t", "u", "v", "w", "x", "y", "z">>

UpperChars == <<"A", "B", "C", "D", "E", "F", "G", "H", "I", "J", "K", "L", "M",
                "N", "O", "P", "Q", "R", "S", "T", "U", "V", "W", "X", "Y", "Z">>

\* str.upper()
Upper(s) ==
    [i \in 1..Len(s) |->
        IF \E j \in 1..26 : LowerChars[j] = s[i]
        THEN UpperChars[CHOOSE j \in 1..26 : LowerChars[j] = s[i]]
        ELSE s[i]]

\* LabelGenerator.__init__
GeneratorNew ==
    /\ remetente = NoRemetente
    /\ config = [resolucao_dpi |-> 300, incluir_cepnet |-> TRUE,
                 incluir_datamatrix |-> FALSE, fonte_padrao |-> "Helvetica",
                 tamanho_fonte_min |-> 10]

\* the tables are empty: no cliente and no endereco
DatabaseNew == db = [clientes |-> 0, enderecos |-> <<>>]

\* no layout call is under way and no canvas exists
NoLayoutCall ==
    /\ tipo = ""
    /\ include_barcode = FALSE
    /\ include_remetente = FALSE
    /\ labels_data = <<>>
    /\ label_index = 0
    /\ row = 0
    /\ col = 0
    /\ pc = "idle"
    /\ cells = <<>>
    /\ pages = <<>>
    /\ page = <<>>

\* the literal that the class body binds to DEFAULT_SETTINGS
DefaultSettingsLiteral ==
    [benu_api |-> [enabled |-> FALSE, token |-> <<>>,
                   base_url |-> "https://www.benuerp.com.br", timeout |-> 30],
     brasilapi |-> [enabled |-> TRUE, cache_ttl_days |-> 30, use_v2 |-> FALSE],
     etiquetas |-> [resolucao_dpi |-> 300, incluir_datamatrix |-> TRUE,
                    incluir_cepnet |-> TRUE, formato_cep |-> "99999-999",
                    fonte_padrao |-> "Helvetica", tamanho_fonte_min |-> 10],
     remetente |-> [nome |-> <<>>, logradouro |-> <<>>, numero |-> <<>>,
                    complemento |-> <<>>, bairro |-> <<>>, cidade |-> <<>>,
                    estado |-> <<>>, cep |-> <<>>, cnpj |-> <<>>,
                    telefone |-> <<>>],
     impressao |-> [cups_enabled |-> TRUE, usar_impressora_padrao |-> TRUE,
                    qualidade |-> "normal"],
     datamatrix |-> [idv_padrao |-> "03", cnae |-> "", servicos_adicionais |-> ""],
     metadata |-> [version |-> "1.0.0", last_updated |-> None]]

\* CONFIG_FILE does not exist
NoFile == [None |-> <<>>]

\* the class body and SystemSettings.__init__ where CONFIG_FILE does not
\* exist: DEFAULT_SETTINGS.copy() copies the outer dict alone, so every
\* section of settings is the very dict that DEFAULT_SETTINGS holds
SettingsNew ==
    /\ DEFAULT_SETTINGS = DefaultSettingsLiteral
    /\ settings = DefaultSettingsLiteral
    /\ aliased = DOMAIN DefaultSettingsLiteral
    /\ disk = NoFile

\* no further argument, no failing render, an empty LABELS_DIR and no
\* call under way in any thread
NoSideCall ==
    /\ args = EmptyDict
    /\ io_fail = {}
    /\ files = EmptyDict
    /\ now = 0
    /\ threads = <<>>
    /\ seen = <<>>

\* the outcome of a call: a returned value or a raised exception
Return(v) == [err |-> "none", value |-> v]
Raise(e) == [err |-> e, value |-> <<>>]

(***************************************************************************)
(* CEPNet (services/correios_codes.py)                                     *)
(***************************************************************************)

DIGIT_ENCODING ==
    [ch \in DigitChars |->
        CASE ch = "0" -> <<"B", "B", "A", "A", "B">>
          [] ch = "1" -> <<"B", "A", "B", "A", "B">>
          [] ch = "2" -> <<"B", "A", "B", "B", "A">>
          [] ch = "3" -> <<"B", "A", "A", "B", "B">>
          [] ch = "4" -> <<"A", "B", "B", "A", "B">>
          [] ch = "5" -> <<"A", "B", "B", "B", "A">>
          [] ch = "6" -> <<"A", "B", "A", "B", "B">>
          [] ch = "7" -> <<"A", "A", "B", "B", "B">>
          [] ch = "8" -> <<"A", "A", "B", "A", "B">>
          [] ch = "9" -> <<"A", "A", "B", "B", "A">>]

\* the codec's own clean-up of its argument: re.sub(r'\D', '', cep)[:8]
cep_clean(c) == Take(StripNonDigits(c), 8)

\* a checksum that omits the multiple-of-ten early return
check_of_soma_no_tiebreak(soma) == ((soma \div 10) + 1) * 10 - soma

\* lines 69-76: the checksum of a digit sum
check_of_soma(soma) ==
    LET multiplo_superior == ((soma \div 10) + 1) * 10
    IN  IF soma % 10 = 0 THEN 0 ELSE multiplo_superior - soma

calculate_check_digit(c) ==
    LET cleaned == cep_clean(c)
        cep_digits == [i \in 1..Len(cleaned) |-> DigitValue(cleaned[i])]
    IN  IF Len(cep_digits) # 8
        THEN Raise("ValueError")
        ELSE Return(check_of_soma(SumSeq(cep_digits)))

\* a formatter that pads the check digit to two places
format_cep_with_check_padded(c) ==
    LET check == calculate_check_digit(cep_clean(c))
    IN  IF check.err # "none" THEN check
        ELSE Return(cep_clean(c) \o
                    (IF check.value < 10 THEN <<"0">> ELSE <<>>) \o Str(check.value))

format_cep_with_check(c) ==
    LET check == calculate_check_digit(cep_clean(c))
    IN  IF check.err # "none" THEN check
        ELSE Return(cep_clean(c) \o Str(check.value))

\* a pattern builder that forgets the closing bar
pattern_of_code_no_end(full_code) ==
    <<"A">> \o Concat([i \in 1..Len(full_code) |-> DIGIT_ENCODING[full_code[i]]])

\* lines 97-107: start bar, five bars per digit, end bar
pattern_of_code(full_code) ==
    <<"A">> \o Concat([i \in 1..Len(full_code) |-> DIGIT_ENCODING[full_code[i]]])
            \o <<"A">>

generate_barcode_pattern(c) ==
    LET check_digit == calculate_check_digit(cep_clean(c))
    IN  IF check_digit.err # "none" THEN check_digit
        ELSE Return(pattern_of_code(cep_clean(c) \o Str(check_digit.value)))

(***************************************************************************)
(* Codec inputs                                                            *)
(***************************************************************************)

\* the longest run of digits handed to the codec
MaxCepLen == 9

CepDigitChars == {"0", "5", "7"}

\* the documented example 71010050
KnownCeps == {<<"7", "1", "0", "1", "0", "0", "5", "0">>}

PlainCeps == UNION {[1..n -> CepDigitChars] : n \in 0..MaxCepLen}

\* the written form 99999-999
Hyphenated(c) == Take(c, 5) \o <<"-">> \o Drop(c, 5)

CepInputs == PlainCeps \cup KnownCeps
             \cup {Hyphenated(c) : c \in {p \in PlainCeps \cup KnownCeps : Len(p) >= 5}}

(***************************************************************************)
(* Codec operations                                                        *)
(***************************************************************************)

CalculateCheckDigit ==
    /\ op' = "calculate_check_digit"
    /\ result' = calculate_check_digit(cep)
    /\ UNCHANGED <<argVars, sideVars, genVars, callVars, sheetVars, canvasVars>>

FormatCepWithCheck ==
    /\ op' = "format_cep_with_check"
    /\ result' = format_cep_with_check(cep)
    /\ UNCHANGED <<argVars, sideVars, genVars, callVars, sheetVars, canvasVars>>

GenerateBarcodePattern ==
    /\ op' = "generate_barcode_pattern"
    /\ result' = generate_barcode_pattern(cep)
    /\ UNCHANGED <<argVars, sideVars, genVars, callVars, sheetVars, canvasVars>>

CodecInit ==
    /\ op = "init"
    /\ cep \in CepInputs
    /\ result = Return(<<>>)
    /\ endereco = EmptyDict
    /\ nome = <<>>
    /\ GeneratorNew
    /\ NoLayoutCall
    /\ NoSideCall
    /\ SettingsNew
    /\ DatabaseNew

CodecNext ==
    \/ CalculateCheckDigit
    \/ FormatCepWithCheck
    \/ GenerateBarcodePattern

SpecCodec == CodecInit /\ [][CodecNext]_vars

(***************************************************************************)
(* Claims about the codec                                                  *)
(***************************************************************************)

\* exactly eight characters, every one a digit
IsValidCep(c) == Len(c) = 8 /\ \A i \in 1..Len(c) : c[i] \in DigitChars

DigitSum(c) == SumSeq([i \in 1..Len(c) |-> DigitValue(c[i])])

\* the smallest multiple of ten strictly above s
MultipleOfTenAbove(s) ==
    CHOOSE m \in 1..(s + 10) :
        /\ m % 10 = 0
        /\ m > s
        /\ \A k \in 1..(s + 10) : (k % 10 = 0 /\ k > s) => m <= k

Zeros8 == [i \in 1..8 |-> "0"]

C2_Pattern47 ==
    (op = "generate_barcode_pattern" /\ IsValidCep(cep)) =>
        /\ result.err = "none"
        /\ Len(result.value) = 47
        /\ result.value[1] = "A"
        /\ result.value[47] = "A"
        /\ \A k \in 1..8 :
              SubSeq(result.value, 5 * k - 3, 5 * k + 1) = DIGIT_ENCODING[cep[k]]
        /\ \E d \in 0..9 :
              /\ calculate_check_digit(cep) = Return(d)
              /\ SubSeq(result.value, 42, 46) = DIGIT_ENCODING[DigitSeq[d + 1]]

C2_Witness ==
    /\ op = "generate_barcode_pattern"
    /\ cep \in KnownCeps
    /\ Len(result.value) = 47
    /\ SubSeq(result.value, 42, 46) = <<"A", "B", "A", "B", "B">>

\* how many digits a text contains
NumDigits(c) == Len(StripNonDigits(c))

\* C3: an input that does not hold exactly 8 digits, fewer or more, makes
\* every codec entry point fail with the invalid-length error.
C3_InvalidLengthFails ==
    (op \in {"calculate_check_digit", "format_cep_with_check",
             "generate_barcode_pattern"} /\ NumDigits(cep) # 8) =>
        result.err = "ValueError"

\* C4: for an 8-digit code format_cep_with_check returns 9 digits: the
\* code followed by its check digit.
C4_FormatWithCheck ==
    (op = "format_cep_with_check" /\ IsValidCep(cep)) =>
        /\ result.err = "none"
        /\ Len(result.value) = 9
        /\ \A i \in 1..Len(result.value) : result.value[i] \in DigitChars
        /\ SubSeq(result.value, 1, 8) = cep
        /\ calculate_check_digit(cep).err = "none"
        /\ DigitValue(result.value[9]) = calculate_check_digit(cep).value

C4_Witness ==
    /\ op = "format_cep_with_check"
    /\ cep \in KnownCeps
    /\ result = Return(<<"7", "1", "0", "1", "0", "0", "5", "0", "6">>)

(***************************************************************************)
(* Address formatter (label_generator.py)                                  *)
(***************************************************************************)

_normalize_cep(c) == Take(StripNonDigits(c), 8)

\* a formatter that inserts the hyphen without testing the length
_format_cep_unchecked(c) ==
    Take(_normalize_cep(c), 5) \o <<"-">> \o Drop(_normalize_cep(c), 5)

_format_cep(c) ==
    LET cleaned == _normalize_cep(c)
    IN  IF Len(cleaned) = 8
        THEN Take(cleaned, 5) \o <<"-">> \o Drop(cleaned, 5)
        ELSE c

SemNumero == <<"s", "/", "n">>

\* a fallback that compares the number without upper-casing it
numero_or_sn_case_sensitive(numero) ==
    IF ~Truthy(numero) \/ numero \in {<<>>, <<"S", "N">>, <<"S", ".", "N", ".">>}
    THEN SemNumero
    ELSE numero

\* lines 90-91: the number shown in the street line
numero_or_sn(numero) ==
    IF ~Truthy(numero) \/ Upper(numero) \in {<<>>, <<"S", "N">>, <<"S", ".", "N", ".">>}
    THEN SemNumero
    ELSE numero

RequiredKeys == {"logradouro", "bairro", "cep", "cidade", "estado"}

_format_address_correios(end, nm) ==
    IF ~(RequiredKeys \subseteq DOMAIN end)
    THEN Raise("KeyError")
    ELSE
    LET destinatario == IF Truthy(Get(end, "destinatario", None))
                        THEN end["destinatario"] ELSE nm
        numero == numero_or_sn(Get(end, "numero", SemNumero))
        logradouro == end["logradouro"] \o <<",", " ">> \o numero
        street == IF Truthy(Get(end, "complemento", None))
                  THEN logradouro \o <<",", " ">> \o end["complemento"]
                  ELSE logradouro
        locality == _format_cep(end["cep"]) \o <<" ">> \o end["cidade"]
                    \o <<"/">> \o Upper(end["estado"])
    IN  Return(<<Upper(destinatario), street, end["bairro"], locality>>)

\* lines 107-130; reads self.remetente
_format_remetente_correios(rem) ==
    IF rem = NoRemetente \/ rem = EmptyDict
    THEN Return(<<>>)
    ELSE
    LET first == <<"R", "e", "m", ":", " ">> \o Get(rem, "nome", <<>>)
        numero == IF Truthy(Get(rem, "numero", SemNumero))
                  THEN Get(rem, "numero", SemNumero) ELSE SemNumero
        logradouro == Get(rem, "logradouro", <<>>) \o <<",", " ">> \o numero
        street == IF Truthy(Get(rem, "complemento", None))
                  THEN logradouro \o <<",", " ">> \o rem["complemento"]
                  ELSE logradouro
        locality == _format_cep(Get(rem, "cep", <<>>)) \o <<" ">>
                    \o Get(rem, "cidade", <<>>) \o <<"/">>
                    \o Upper(Get(rem, "estado", <<>>))
    IN  Return(<<first, street, locality>>)

(***************************************************************************)
(* Formatter inputs                                                        *)
(***************************************************************************)

Cep71010050 == <<"7", "1", "0", "1", "0", "0", "5", "0">>

DestinatarioOpts == {Absent, None, <<>>, <<"A", "n", "a">>}

NumeroOpts == {Absent, None, <<>>, <<"S", "N">>, <<"s", "n">>, <<"S", "n">>,
               <<"S", ".", "N", ".">>, <<"s", ".", "n", ".">>,
               <<"S", "/", "N">>, <<"s", "/", "n">>, <<"1", "2">>,
               <<"1", "2", "a">>, <<" ">>}

ComplementoOpts == {Absent, None, <<>>, <<"a", "p", " ", "1">>}

BairroOpts == {Absent, <<"A", "s", "a", " ", "S", "u", "l">>}

CepOpts == {Cep71010050, Hyphenated(Cep71010050), <<"7", "1", "0", "1">>,
            Cep71010050 \o <<"9">>}

EstadoOpts == {<<"d", "f">>, <<"D", "F">>, <<"D", "f">>}

NomeOpts == {<<"j", "o", "a", "o">>, <<"A", "C", "M", "E", " ", "l", "t", "d", "a">>}

EnderecoInputs ==
    {MkDict([destinatario |-> d, logradouro |-> <<"R", "u", "a", " ", "A">>,
             numero |-> n, complemento |-> c, bairro |-> b,
             cidade |-> <<"B", "r", "a", "s", "i", "l", "i", "a">>,
             estado |-> e, cep |-> z]) :
        d \in DestinatarioOpts, n \in NumeroOpts, c \in ComplementoOpts,
        b \in BairroOpts, e \in EstadoOpts, z \in CepOpts}

(***************************************************************************)
(* Formatter operations                                                    *)
(***************************************************************************)

FormatAddressCorreios ==
    /\ op' = "_format_address_correios"
    /\ result' = _format_address_correios(endereco, nome)
    /\ UNCHANGED <<argVars, sideVars, genVars, callVars, sheetVars, canvasVars>>

AddrInit ==
    /\ op = "init"
    /\ result = Return(<<>>)
    /\ cep = <<>>
    /\ endereco \in EnderecoInputs
    /\ nome \in NomeOpts
    /\ GeneratorNew
    /\ NoLayoutCall
    /\ NoSideCall
    /\ SettingsNew
    /\ DatabaseNew

AddrNext == FormatAddressCorreios

SpecAddr == AddrInit /\ [][AddrNext]_vars

\* the number of bars of the kind b among the bars
Bars(bars, b) == Cardinality({i \in 1..Len(bars) : bars[i] = b})

\* C25: every digit of a generated pattern is encoded by a group of five
\* bars with exactly 2 high bars ('A') and 3 low bars ('B'), as the digit
\* table has it for every digit, so that a pattern of 47 bars holds
\* exactly 2 + 9 * 2 = 20 high bars.
C25_TwoHighBars ==
    (op = "generate_barcode_pattern" /\ result.err = "none") =>
        /\ \A k \in 1..9 :
              /\ Bars(SubSeq(result.value, 5 * k - 3, 5 * k + 1), "A") = 2
              /\ Bars(SubSeq(result.value, 5 * k - 3, 5 * k + 1), "B") = 3
        /\ Bars(result.value, "A") = 20

(***************************************************************************)
(* Claims about the destination formatter                                  *)
(***************************************************************************)

IsPrefix(p, s) == Len(p) <= Len(s) /\ SubSeq(s, 1, Len(p)) = p

CommaSpace == <<",", " ">>

\* the spellings of SN and S.N. in any letter case
SemNumeroMarkers ==
    {<<a, b>> : a \in {"S", "s"}, b \in {"N", "n"}}
    \cup {<<a, ".", b, ".">> : a \in {"S", "s"}, b \in {"N", "n"}}

\* the number is missing, None, empty or a no-number marker
NumeroIsBlank(end) ==
    \/ "numero" \notin DOMAIN end
    \/ end["numero"] \in {None, <<>>}
    \/ end["numero"] \in SemNumeroMarkers

NumeroShown(end) == IF NumeroIsBlank(end) THEN <<"s", "/", "n">> ELSE end["numero"]

\* C8: in the street line an empty or absent numero, or one equal to SN
\* or S.N. in any letter case, is rendered as s/n; any other value appears
\* unchanged after "{logradouro}, ".
C8_NumeroFallback ==
    (op = "_format_address_correios" /\ result.err = "none") =>
        LET street == result.value[2]
            head == endereco["logradouro"] \o CommaSpace \o NumeroShown(endereco)
        IN  /\ IsPrefix(head, street)
            /\ \/ street = head
               \/ IsPrefix(head \o CommaSpace, street)

C8_Witness ==
    /\ op = "_format_address_correios"
    /\ "numero" \in DOMAIN endereco
    /\ endereco["numero"] = <<"s", ".", "n", ".">>
    /\ "complemento" \notin DOMAIN endereco
    /\ result.err = "none"
    /\ result.value[2] = <<"R", "u", "a", " ", "A", ",", " ", "s", "/", "n">>

HasRequiredFields(end) ==
    {"logradouro", "bairro", "cidade", "estado", "cep"} \subseteq DOMAIN end

IsPresent(end, k) == k \in DOMAIN end /\ end[k] \notin {None, <<>>}

FirstLineExpected(end, nm) ==
    Upper(IF IsPresent(end, "destinatario") THEN end["destinatario"] ELSE nm)

StreetLineExpected(end) ==
    end["logradouro"] \o CommaSpace \o NumeroShown(end)
    \o (IF IsPresent(end, "complemento")
        THEN CommaSpace \o end["complemento"] ELSE <<>>)

LocalityTail(end) == <<" ">> \o end["cidade"] \o <<"/">> \o Upper(end["estado"])

\* the shape DDDDD-DDD
IsCepMask(f) ==
    /\ Len(f) = 9
    /\ f[6] = "-"
    /\ \A i \in (1..9) \ {6} : f[i] \in DigitChars

RemetenteInputs ==
    {EmptyDict} \cup
    {MkDict([nome |-> n, logradouro |-> <<"R", "u", "a", " ", "B">>,
             numero |-> u, complemento |-> c, bairro |-> b,
             cidade |-> <<"R", "i", "o">>, estado |-> e, cep |-> z]) :
        n \in {<<>>, <<"L", "o", "j", "a">>},
        u \in {Absent, <<>>, <<"1", "0">>, <<"S", "N">>},
        c \in {Absent, <<>>, <<"s", "a", "l", "a", " ", "2">>},
        b \in {<<"L", "a", "p", "a">>, <<"C", "e", "n", "t", "r", "o">>},
        e \in {<<"r", "j">>, <<"R", "J">>},
        z \in {<<"2", "0", "0", "0", "0", "0", "0", "0">>,
                <<"2", "0", "0", "0", "0", "-", "0", "0", "0">>}}

\* lines 52-54
SetRemetente ==
    \E r \in RemetenteInputs :
        /\ op' = "set_remetente"
        /\ remetente' = r
        /\ result' = Return(<<>>)
        /\ UNCHANGED <<argVars, sideVars, config, callVars, sheetVars, canvasVars>>

FormatRemetenteCorreios ==
    /\ op' = "_format_remetente_correios"
    /\ result' = _format_remetente_correios(remetente)
    /\ UNCHANGED <<argVars, sideVars, genVars, callVars, sheetVars, canvasVars>>

RemetenteInit ==
    /\ op = "init"
    /\ result = Return(<<>>)
    /\ cep = <<>>
    /\ endereco = EmptyDict
    /\ nome = <<>>
    /\ GeneratorNew
    /\ NoLayoutCall
    /\ NoSideCall
    /\ SettingsNew
    /\ DatabaseNew

RemetenteNext ==
    \/ SetRemetente
    \/ FormatRemetenteCorreios

SpecRemetente == RemetenteInit /\ [][RemetenteNext]_vars

\* a sender dict with a name, as main.py tests before set_remetente
SenderConfigured(rem) ==
    /\ rem # NoRemetente
    /\ rem # EmptyDict
    /\ IsPresent(rem, "nome")

\* C10: with a sender configured the sender formatter returns the four
\* lines name, street, neighborhood, locality, the first being "Rem: "
\* followed by the sender name.
C10_SenderFourLines ==
    (op = "_format_remetente_correios" /\ SenderConfigured(remetente)) =>
        /\ result.err = "none"
        /\ Len(result.value) = 4
        /\ result.value[1] = <<"R", "e", "m", ":", " ">> \o Get(remetente, "nome", <<>>)
        /\ result.value[3] = Get(remetente, "bairro", <<>>)

(***************************************************************************)
(* Page layouts (label_generator.py, config.py)                            *)
(*                                                                         *)
(* Lengths are whole multiples of 1/45720 inch, the largest unit in which  *)
(* both a point (1/72 inch) and a hundredth of a millimetre are whole, so  *)
(* that the arithmetic of the layouts is exact.                            *)
(***************************************************************************)

\* one point, the unit of the canvas and of the font sizes
pt == 635

\* reportlab.lib.units.mm: 72 / 25.4 points
mm == 1800

\* a length given in hundredths of a millimetre, times mm
Mm(hundredths) == (hundredths * mm) \div 100

\* config.py LABEL_SIZES, dimensions in hundredths of a millimetre
LABEL_SIZES ==
    [thermal_60x30 |-> [width |-> 6000, height |-> 3000],
     thermal_100x80 |-> [width |-> 10000, height |-> 8000],
     pimaco_a4 |-> [width |-> 9900, height |-> 3810, labels_per_sheet |-> 14,
                    columns |-> 2, rows |-> 7, page_width |-> 21000,
                    page_height |-> 29700, margin_top |-> 1270,
                    margin_left |-> 635, spacing_h |-> 300, spacing_v |-> 0],
     envelope_dl |-> [width |-> 22000, height |-> 11000],
     envelope_c5 |-> [width |-> 22900, height |-> 16200]]

\* the inline config of the 6-per-sheet layout
SIX_PER_SHEET ==
    [width |-> 10160, height |-> 8470, labels_per_sheet |-> 6, columns |-> 2,
     rows |-> 3, margin_top |-> 2120, margin_left |-> 390, spacing_h |-> 0,
     spacing_v |-> 0]

\* reportlab.lib.pagesizes.A4 is (210 * mm, 297 * mm)
A4_height == 297 * mm

\* int(avail / (font_size * k)), k given in hundredths
max_chars_of(avail, font_size, k100) == (avail * 100) \div (font_size * pt * k100)

\* s[:n] for any integer n
SliceTo(s, n) ==
    IF n >= 0 THEN Take(s, n)
    ELSE Take(s, IF Len(s) + n > 0 THEN Len(s) + n ELSE 0)

Ellipsis == <<".", ".", ".">>

\* a cut that leaves no room for the ellipsis
truncate_line_full(line, max_chars) ==
    IF Len(line) > max_chars THEN SliceTo(line, max_chars) \o Ellipsis ELSE line

\* lines 215-216 and 456-457
truncate_line(line, max_chars) ==
    IF Len(line) > max_chars THEN SliceTo(line, max_chars - 3) \o Ellipsis ELSE line

\* what a canvas call leaves on the page
DrawString(x, y, text, font, size) ==
    [kind |-> "drawString", x |-> x, y |-> y, text |-> text, font |-> font,
     size |-> size, w |-> 0, h |-> 0]

DrawRightString(x, y, text, font, size) ==
    [kind |-> "drawRightString", x |-> x, y |-> y, text |-> text, font |-> font,
     size |-> size, w |-> 0, h |-> 0]

DrawImage(x, y, w, h, bars) ==
    [kind |-> "drawImage", x |-> x, y |-> y, text |-> bars, font |-> "",
     size |-> 0, w |-> w, h |-> h]

\* a handler that lets the failure of the render leave the call
_draw_cepnet_reraise(c, x, y, width, height, io_ok) ==
    LET pattern == generate_barcode_pattern(_normalize_cep(c))
    IN  IF pattern.err # "none" THEN pattern
        ELSE IF ~io_ok THEN Raise("OSError")
        ELSE Return(<<DrawImage(x, y, width, height, pattern.value)>>)

\* lines 146-170: the bars are drawn, or the failure (of the codec, or,
\* where io_ok is false, of the raster write or of drawImage) is caught
\* and printed and nothing is drawn
_draw_cepnet(c, x, y, width, height, io_ok) ==
    LET pattern == generate_barcode_pattern(_normalize_cep(c))
    IN  IF pattern.err # "none" \/ ~io_ok THEN Return(<<>>)
        ELSE Return(<<DrawImage(x, y, width, height, pattern.value)>>)

Min(a, b) == IF a < b THEN a ELSE b

\* lines 422-473: what one cell of a sheet draws, or the exception raised
_draw_label_content(x, y, width, height, cliente_nome, end, with_barcode, font_size, cfg, io_ok) ==
    LET padding == 3 * mm
        line_height == (font_size + 3) * pt
        address == _format_address_correios(end, cliente_nome)
        max_chars == max_chars_of(width - 2 * padding, font_size, 45)
        n == Len(address.value)
        texts == [i \in 1..n |->
                    DrawString(x + padding,
                               y + height - padding - i * line_height,
                               truncate_line(address.value[i], max_chars),
                               IF i = 1 \/ i = n THEN "Helvetica-Bold"
                               ELSE "Helvetica",
                               IF i = 1 THEN font_size ELSE font_size - 1)]
        barcode == IF with_barcode /\ Get(cfg, "incluir_cepnet", TRUE)
                   THEN _draw_cepnet(end["cep"], x + padding, y + padding,
                                     Min(60 * mm, width - 2 * padding), 10 * mm,
                                     io_ok)
                   ELSE Return(<<>>)
    IN  IF address.err # "none" THEN address
        ELSE IF barcode.err # "none" THEN barcode
        ELSE Return(texts \o barcode.value)

\* lines 172-251: the page of a thermal label, or the exception raised
generate_thermal_label(cliente_nome, end, size, with_barcode, with_remetente, rem, cfg, io_ok) ==
    IF size \notin DOMAIN LABEL_SIZES THEN Raise("KeyError")
    ELSE
    LET width == Mm(LABEL_SIZES[size].width)
        height == Mm(LABEL_SIZES[size].height)
        margin == 2 * mm
        font_size == IF size = "thermal_60x30" THEN 8 ELSE 10
        line_height == (font_size + 3) * pt
        address == _format_address_correios(end, cliente_nome)
        max_chars == max_chars_of(width - 2 * margin, font_size, 50)
        n == Len(address.value)
        texts == [i \in 1..n |->
                    DrawString(margin, height - margin - i * line_height,
                               truncate_line(address.value[i], max_chars),
                               IF i = 1 \/ i = n THEN "Helvetica-Bold"
                               ELSE "Helvetica",
                               IF i = 1 THEN font_size + 1 ELSE font_size)]
        barcode == IF with_barcode /\ Get(cfg, "incluir_cepnet", TRUE)
                   THEN IF size = "thermal_60x30"
                        THEN _draw_cepnet(end["cep"], margin, 2 * mm, 45 * mm,
                                          8 * mm, io_ok)
                        ELSE _draw_cepnet(end["cep"], margin, 5 * mm, 65 * mm,
                                          12 * mm, io_ok)
                   ELSE Return(<<>>)
        remetente_lines == _format_remetente_correios(rem).value
        m == Len(remetente_lines)
        sender == IF with_remetente /\ rem # NoRemetente /\ rem # EmptyDict
                     /\ size = "thermal_100x80"
                  THEN [j \in 1..m |->
                          DrawRightString(width - margin, 3 * mm + (j - 1) * 8 * pt,
                                          remetente_lines[m + 1 - j], "Helvetica", 6)]
                  ELSE <<>>
    IN  IF address.err # "none" THEN address
        ELSE IF barcode.err # "none" THEN barcode
        ELSE Return(texts \o barcode.value \o sender)

\* lines 267-280: the grid of a sheet layout
sheet_config(layout) ==
    IF layout = "6_per_sheet" THEN SIX_PER_SHEET ELSE LABEL_SIZES["pimaco_a4"]

\* line 320
sheet_font_size(layout) == IF layout = "6_per_sheet" THEN 9 ELSE 8

\* a column offset that forgets the gap between columns
label_x_no_spacing(cfg, c) == Mm(cfg.margin_left) + c * Mm(cfg.width)

\* line 310
label_x(cfg, c) == Mm(cfg.margin_left) + c * (Mm(cfg.width) + Mm(cfg.spacing_h))

\* a row offset that forgets the row
label_y_first_row(cfg, r) ==
    A4_height - Mm(cfg.margin_top) - Mm(cfg.height) - r * Mm(cfg.spacing_v)

\* line 311
label_y(cfg, r) ==
    A4_height - Mm(cfg.margin_top) - (r + 1) * Mm(cfg.height) - r * Mm(cfg.spacing_v)

(***************************************************************************)
(* Drawing one label                                                       *)
(***************************************************************************)

\* the longest display name tried
MaxNameLen == 76

NameLetters == <<"a", "b", "c", "d", "e", "f", "g">>

\* a text of n letters, no two neighbours alike
TextOfLen(n) == [i \in 1..n |-> NameLetters[((i - 1) % 7) + 1]]

LongNames == {TextOfLen(n) : n \in 0..MaxNameLen}

DrawEnderecos ==
    {MkDict([destinatario |-> Absent, logradouro |-> <<"R", "u", "a", " ", "A">>,
             numero |-> <<"1", "2">>, complemento |-> c,
             bairro |-> <<"A", "s", "a", " ", "S", "u", "l">>,
             cidade |-> <<"B", "r", "a", "s", "i", "l", "i", "a">>,
             estado |-> <<"D", "F">>, cep |-> z]) :
        c \in {Absent, TextOfLen(MaxNameLen)},
        z \in {Cep71010050, <<"7", "1", "0", "1">>}}

SenderLoja ==
    [nome |-> <<"L", "o", "j", "a">>, logradouro |-> <<"R", "u", "a", " ", "B">>,
     numero |-> <<"1", "0">>, complemento |-> <<>>,
     bairro |-> <<"C", "e", "n", "t", "r", "o">>, cidade |-> <<"R", "i", "o">>,
     estado |-> <<"R", "J">>, cep |-> <<"2", "0", "0", "0", "0", "0", "0", "0">>]

GenerateThermalLabel ==
    \E size \in {"thermal_60x30", "thermal_100x80"} :
        LET r == generate_thermal_label(nome, endereco, size, include_barcode,
                                        include_remetente, remetente, config,
                                        1 \notin io_fail)
        IN  /\ op' = "generate_thermal_label"
            /\ tipo' = size
            /\ pages' = IF r.err = "none" THEN <<r.value>> ELSE <<>>
            /\ page' = <<>>
            /\ result' = IF r.err = "none" THEN Return(pages') ELSE r
            /\ UNCHANGED <<argVars, sideVars, genVars, include_barcode, include_remetente,
                           sheetVars>>

\* _draw_label_content on a fresh page, with the arguments
\* generate_pimaco_sheet passes for the first cell of the layout
DrawLabelContent ==
    \E layout \in {"14_per_sheet", "6_per_sheet"} :
        LET cfg == sheet_config(layout)
            r == _draw_label_content(label_x(cfg, 0), label_y(cfg, 0),
                                     Mm(cfg.width), Mm(cfg.height), nome, endereco,
                                     include_barcode, sheet_font_size(layout), config,
                                     1 \notin io_fail)
        IN  /\ op' = "_draw_label_content"
            /\ tipo' = layout
            /\ pages' = <<>>
            /\ page' = r.value
            /\ result' = IF r.err = "none" THEN Return(<<>>) ELSE r
            /\ UNCHANGED <<argVars, sideVars, genVars, include_barcode, include_remetente,
                           sheetVars>>

DrawInit ==
    /\ op = "init"
    /\ result = Return(<<>>)
    /\ cep = <<>>
    /\ endereco \in DrawEnderecos
    /\ nome \in LongNames
    /\ remetente \in {NoRemetente, SenderLoja}
    /\ config = [resolucao_dpi |-> 300, incluir_cepnet |-> TRUE,
                 incluir_datamatrix |-> FALSE, fonte_padrao |-> "Helvetica",
                 tamanho_fonte_min |-> 10]
    /\ tipo = ""
    /\ include_barcode \in BOOLEAN
    /\ include_remetente \in BOOLEAN
    /\ labels_data = <<>>
    /\ label_index = 0
    /\ row = 0
    /\ col = 0
    /\ pc = "idle"
    /\ cells = <<>>
    /\ pages = <<>>
    /\ page = <<>>
    /\ NoSideCall
    /\ SettingsNew
    /\ DatabaseNew

DrawNext ==
    \/ GenerateThermalLabel
    \/ DrawLabelContent

SpecDraw == DrawInit /\ [][DrawNext]_vars

\* the number the source's float arithmetic gives for
\* int((W - 2m) / (f * k)) in each layout
MaxCharsExpected(t) ==
    CASE t = "thermal_60x30" -> 39
      [] t = "thermal_100x80" -> 54
      [] t = "14_per_sheet" -> 73
      [] t = "6_per_sheet" -> 66

\* the destination lines on the canvas after the last call
DestinationOps ==
    SelectSeq(IF op = "generate_thermal_label" THEN pages[1] ELSE page,
              LAMBDA o : o.kind = "drawString")

\* C7: in the thermal and multi-up layouts a destination line longer than
\* max_chars is drawn as its first max_chars - 3 characters followed by
\* "...", max_chars characters in all, and a line of at most max_chars
\* characters is drawn unmodified.
C7_Truncation ==
    (op \in {"generate_thermal_label", "_draw_label_content"}
        /\ result.err = "none") =>
        LET lines == _format_address_correios(endereco, nome).value
            max == MaxCharsExpected(tipo)
        IN  /\ Len(DestinationOps) = Len(lines)
            /\ \A i \in 1..Len(lines) :
                  LET drawn == DestinationOps[i].text
                  IN  IF Len(lines[i]) > max
                      THEN /\ Len(drawn) = max
                           /\ SubSeq(drawn, 1, max - 3) = SubSeq(lines[i], 1, max - 3)
                           /\ SubSeq(drawn, max - 2, max) = <<".", ".", ".">>
                      ELSE drawn = lines[i]

\* a name one character too long for a cell of the 14-per-sheet layout
\* was cut to 70 characters and the ellipsis
C7_Witness ==
    /\ op = "_draw_label_content"
    /\ tipo = "14_per_sheet"
    /\ result.err = "none"
    /\ Len(nome) = 74
    /\ Len(DestinationOps[1].text) = 73
    /\ DestinationOps[1].text[70] = "G"
    /\ DestinationOps[1].text[71] = "."

(***************************************************************************)
(* generate_pimaco_sheet, statement by statement                           *)
(***************************************************************************)

\* the largest batch tried
MaxLabels == 29

SheetEndereco(i) ==
    [logradouro |-> <<"R", "u", "a", " ", "A">>, numero |-> Str(i),
     bairro |-> <<"A", "s", "a", " ", "S", "u", "l">>,
     cidade |-> <<"B", "r", "a", "s", "i", "l", "i", "a">>,
     estado |-> <<"D", "F">>,
     cep |-> IF i % 2 = 1 THEN Cep71010050 ELSE <<"7", "1", "0", "1">>]

\* a batch of n labels, each with a name of its own
LabelsData(n) ==
    [i \in 1..n |-> [cliente_nome |-> <<"l">> \o Str(i), endereco |-> SheetEndereco(i)]]

\* a test that never asks for a further page
more_labels_never(index, total_labels) == FALSE

\* lines 300 and 323: labels remain
more_labels(index, total_labels) == index < total_labels

\* lines 267-298
SheetEnter ==
    /\ pc = "call"
    /\ op' = "generate_pimaco_sheet"
    /\ label_index' = 0
    /\ pages' = <<>>
    /\ page' = <<>>
    /\ pc' = "while"
    /\ UNCHANGED <<result, argVars, sideVars, genVars, callVars, labels_data, row, col, cells>>

\* line 300, and the start of the two for loops
SheetWhile ==
    /\ pc = "while"
    /\ IF label_index < Len(labels_data)
       THEN /\ pc' = "for"
            /\ row' = 0
            /\ col' = 0
       ELSE /\ pc' = "save"
            /\ UNCHANGED <<row, col>>
    /\ UNCHANGED <<op, result, argVars, sideVars, genVars, callVars, labels_data,
                   label_index, cells, canvasVars>>

\* lines 306-321: one cell is drawn and the loops move on
SheetDraw ==
    /\ pc = "for"
    /\ label_index < Len(labels_data)
    /\ LET cfg == sheet_config(tipo)
           data == labels_data[label_index + 1]
           x == label_x(cfg, col)
           y == label_y(cfg, row)
           r == _draw_label_content(x, y, Mm(cfg.width), Mm(cfg.height),
                                    data.cliente_nome, data.endereco,
                                    include_barcode, sheet_font_size(tipo), config,
                                    (label_index + 1) \notin io_fail)
       IN  /\ label_index' = label_index + 1
           /\ cells' = Append(cells, [data |-> data, page |-> Len(pages) + 1,
                                      x |-> x, y |-> y])
           /\ IF r.err # "none"
              THEN /\ result' = r
                   /\ pc' = "done"
                   /\ UNCHANGED <<row, col, page>>
              ELSE /\ page' = page \o r.value
                   /\ UNCHANGED result
                   /\ IF col + 1 < cfg.columns
                      THEN /\ col' = col + 1
                           /\ UNCHANGED <<row, pc>>
                      ELSE IF row + 1 < cfg.rows
                           THEN /\ row' = row + 1
                                /\ col' = 0
                                /\ UNCHANGED pc
                           ELSE /\ pc' = "endfor"
                                /\ UNCHANGED <<row, col>>
    /\ UNCHANGED <<op, argVars, sideVars, genVars, callVars, labels_data, pages>>

\* lines 303-304: the batch is exhausted, the inner loop is left
SheetBreak ==
    /\ pc = "for"
    /\ label_index >= Len(labels_data)
    /\ IF row + 1 < sheet_config(tipo).rows
       THEN /\ row' = row + 1
            /\ col' = 0
            /\ UNCHANGED pc
       ELSE /\ pc' = "endfor"
            /\ UNCHANGED <<row, col>>
    /\ UNCHANGED <<op, result, argVars, sideVars, genVars, callVars, labels_data,
                   label_index, cells, canvasVars>>

\* lines 323-324: showPage closes the page when labels remain
SheetEndFor ==
    /\ pc = "endfor"
    /\ IF more_labels(label_index, Len(labels_data))
       THEN /\ pages' = Append(pages, page)
            /\ page' = <<>>
       ELSE UNCHANGED <<pages, page>>
    /\ pc' = "while"
    /\ UNCHANGED <<op, result, argVars, sideVars, genVars, callVars, labels_data,
                   label_index, row, col, cells>>

\* lines 326-328: save closes the open page if anything is drawn on it
SheetSave ==
    /\ pc = "save"
    /\ pages' = IF page # <<>> THEN Append(pages, page) ELSE pages
    /\ page' = <<>>
    /\ result' = Return(pages')
    /\ pc' = "done"
    /\ UNCHANGED <<op, argVars, sideVars, genVars, callVars, labels_data, label_index,
                   row, col, cells>>

SheetInit ==
    /\ op = "init"
    /\ result = Return(<<>>)
    /\ cep = <<>>
    /\ endereco = EmptyDict
    /\ nome = <<>>
    /\ GeneratorNew
    /\ tipo \in {"14_per_sheet", "6_per_sheet"}
    /\ include_barcode \in BOOLEAN
    /\ include_remetente = FALSE
    /\ labels_data \in {LabelsData(n) : n \in 0..MaxLabels}
    /\ label_index = 0
    /\ row = 0
    /\ col = 0
    /\ pc = "call"
    /\ cells = <<>>
    /\ pages = <<>>
    /\ page = <<>>
    /\ NoSideCall
    /\ SettingsNew
    /\ DatabaseNew

SheetNext ==
    \/ SheetEnter
    \/ SheetWhile
    \/ SheetDraw
    \/ SheetBreak
    \/ SheetEndFor
    \/ SheetSave

SpecSheet == SheetInit /\ [][SheetNext]_vars

(***************************************************************************)
(* Claims about the sheet                                                  *)
(***************************************************************************)

PerSheet(t) == sheet_config(t).rows * sheet_config(t).columns

\* the smallest number of sheets of the given size that hold n labels
PagesNeeded(n, per) == CHOOSE q \in 0..n : q * per >= n /\ \A k \in 0..n : k * per >= n => q <= k

CellsOnPage(p) == {k \in 1..Len(cells) : cells[k].page = p}

\* C5: label i (0-based) is drawn in row-major order at row
\* (i mod (rows*cols)) div cols and column (i mod (rows*cols)) mod cols,
\* at x = margin_left + col*(label_width + spacing_h) and
\* y = page_height - margin_top - (row+1)*label_height - row*spacing_v;
\* every label is drawn exactly once and in input order.
C5_RowMajorPosition ==
    LET cfg == sheet_config(tipo)
        per == cfg.rows * cfg.columns
    IN  /\ Len(cells) = label_index
        /\ \A k \in 1..Len(cells) :
              LET i == k - 1
                  r == (i % per) \div cfg.columns
                  c == (i % per) % cfg.columns
              IN  /\ cells[k].data = labels_data[k]
                  /\ cells[k].x = Mm(cfg.margin_left)
                                  + c * (Mm(cfg.width) + Mm(cfg.spacing_h))
                  /\ cells[k].y = 297 * mm - Mm(cfg.margin_top)
                                  - (r + 1) * Mm(cfg.height) - r * Mm(cfg.spacing_v)
        /\ (pc = "done" /\ result.err = "none") => Len(cells) = Len(labels_data)

\* the fourth label of a 14-per-sheet batch of 20 stands in row 1, column 1:
\* 108.35 mm from the left, 208.1 mm from the bottom
C5_Witness ==
    /\ pc = "done"
    /\ tipo = "14_per_sheet"
    /\ Len(labels_data) = 20
    /\ Len(cells) = 20
    /\ cells[4].x = 195030
    /\ cells[4].y = 374580
    /\ cells[4].data.cliente_nome = <<"l", "4">>

\* C6: for N >= 1 the document has ceil(N / (rows*cols)) pages: a page is
\* closed exactly when it is full and labels remain, no page is blank, the
\* first label of each later page is at row 0, column 0, and 20 labels on
\* the 14-per-sheet layout give 2 pages, the second with 6 labels.
C6_PageCount ==
    LET cfg == sheet_config(tipo)
        per == cfg.rows * cfg.columns
        n == Len(labels_data)
    IN  /\ \A p \in 1..Len(pages) :
              (pc # "done" \/ p < Len(pages)) => Cardinality(CellsOnPage(p)) = per
        /\ (pc = "done" /\ result.err = "none" /\ n >= 1) =>
              /\ Len(pages) = PagesNeeded(n, per)
              /\ \A p \in 1..Len(pages) :
                    /\ pages[p] # <<>>
                    /\ CellsOnPage(p) # {}
                    /\ LET first == CHOOSE k \in CellsOnPage(p) :
                                        \A j \in CellsOnPage(p) : k <= j
                       IN  /\ cells[first].x = Mm(cfg.margin_left)
                           /\ cells[first].y = 297 * mm - Mm(cfg.margin_top)
                                               - Mm(cfg.height)
              /\ (tipo = "14_per_sheet" /\ n = 20) =>
                    /\ Len(pages) = 2
                    /\ Cardinality(CellsOnPage(2)) = 6

C6_Witness ==
    /\ pc = "done"
    /\ result.err = "none"
    /\ tipo = "14_per_sheet"
    /\ Len(labels_data) = 20
    /\ Len(pages) = 2
    /\ Cardinality(CellsOnPage(1)) = 14
    /\ Cardinality(CellsOnPage(2)) = 6


\* reportlab.lib.pagesizes.A4 is (210 * mm, 297 * mm)
A4_width == 210 * mm

\* C28: in both sheet layouts every cell that generate_pimaco_sheet
\* computes lies inside the A4 page, and no two cells of one page overlap
\* in area.
C28_CellsInsidePage ==
    LET w == Mm(sheet_config(tipo).width)
        h == Mm(sheet_config(tipo).height)
    IN  \A k \in 1..Len(cells) :
            /\ 0 <= cells[k].x
            /\ cells[k].x + w <= A4_width
            /\ 0 <= cells[k].y
            /\ cells[k].y + h <= A4_height
            /\ \A j \in 1..Len(cells) :
                  (j # k /\ cells[j].page = cells[k].page) =>
                      \/ cells[j].x + w <= cells[k].x
                      \/ cells[k].x + w <= cells[j].x
                      \/ cells[j].y + h <= cells[k].y
                      \/ cells[k].y + h <= cells[j].y

\* a full page of the 6-per-sheet layout, whose cells touch: the second
\* begins where the first ends, and the third lies right under the first
C28_Witness ==
    /\ pc = "done"
    /\ tipo = "6_per_sheet"
    /\ Len(cells) >= 6
    /\ cells[1].x + Mm(SIX_PER_SHEET.width) = cells[2].x
    /\ cells[3].y + Mm(SIX_PER_SHEET.height) = cells[1].y
    /\ cells[6].y = A4_height - Mm(2120) - 3 * Mm(8470)

\* two full pages of the 14-per-sheet layout
FullPages14 ==
    /\ pc = "done"
    /\ tipo = "14_per_sheet"
    /\ Len(cells) = 28
    /\ cells[28].page = 2

(***************************************************************************)
(* set_config (label_generator.py, main.py)                                *)
(***************************************************************************)

\* d[ks]: the dict d cut down to the keys ks
Restrict(d, ks) == [k \in ks |-> d[k]]

\* an assignment that forgets the keys the update leaves out
dict_replace(d, u) == u

\* dict.update(u): the keys of u are set to the values of u, every other
\* key is left as it is
dict_update(d, u) ==
    [k \in DOMAIN d \cup DOMAIN u |-> IF k \in DOMAIN u THEN u[k] ELSE d[k]]

\* the request bodies tried: every choice of keys out of a body that sets
\* two flags, the resolution and a key that holds a dict, and the
\* etiquetas section that the startup hands over
ConfigUpdates ==
    {Restrict(f, ks) :
        f \in [resolucao_dpi : {300, 600}, incluir_cepnet : BOOLEAN,
               incluir_datamatrix : BOOLEAN,
               margens : {[top |-> 1], [top |-> 2, left |-> 3]}],
        ks \in SUBSET {"resolucao_dpi", "incluir_cepnet", "incluir_datamatrix",
                       "margens"}}
    \cup {DefaultSettingsLiteral.etiquetas}

\* lines 56-58, called with the dict u
SetConfigTo(u) ==
    /\ op' = "set_config"
    /\ args' = [config |-> u]
    /\ config' = dict_update(config, u)
    /\ result' = Return(None)
    /\ UNCHANGED <<cep, endereco, nome, remetente, callVars, sheetVars,
                   canvasVars, sideVars>>

SetConfig ==
    \E u \in ConfigUpdates : SetConfigTo(u)

ConfigInit ==
    /\ op = "init"
    /\ result = Return(<<>>)
    /\ cep = <<>>
    /\ endereco = EmptyDict
    /\ nome = <<>>
    /\ GeneratorNew
    /\ NoLayoutCall
    /\ NoSideCall
    /\ SettingsNew
    /\ DatabaseNew

ConfigNext == SetConfig

SpecConfig == ConfigInit /\ [][ConfigNext]_vars

\* C11: set_config(u) is a shallow key merge: after the call every
\* top-level key of u holds the value of u, whole, every key of the former
\* config that u leaves out holds its former value, and no other key
\* exists; this holds for every call of every sequence of calls.
C11_ShallowMerge ==
    [][op' = "set_config" =>
        LET u == args'.config
        IN  /\ DOMAIN config' = DOMAIN config \cup DOMAIN u
            /\ \A k \in DOMAIN u : config'[k] = u[k]
            /\ \A k \in DOMAIN config \ DOMAIN u : config'[k] = config[k]]_vars

\* an earlier call raised the resolution and put a dict of two keys under
\* margens; the last call, which set incluir_cepnet alone, left both
C11_Witness ==
    /\ op = "set_config"
    /\ args.config = [incluir_cepnet |-> FALSE]
    /\ config.incluir_cepnet = FALSE
    /\ config.resolucao_dpi = 600
    /\ "margens" \in DOMAIN config
    /\ config.margens = [top |-> 2, left |-> 3]
    /\ config.tamanho_fonte_min = 10

(***************************************************************************)
(* generate_envelope and generate_label (label_generator.py)               *)
(***************************************************************************)

\* what canvas.line and canvas.rect leave on the page
DrawLine(x1, y1, x2, y2) ==
    [kind |-> "line", x |-> x1, y |-> y1, text |-> <<>>, font |-> "",
     size |-> 0, w |-> x2 - x1, h |-> y2 - y1]

DrawRect(x, y, w, h) ==
    [kind |-> "rect", x |-> x, y |-> y, text |-> <<>>, font |-> "",
     size |-> 0, w |-> w, h |-> h]

\* a test for None alone
remetente_not_none(rem) == rem # NoRemetente

\* bool(self.remetente): None and the empty dict are false
remetente_set(rem) == rem # NoRemetente /\ rem # EmptyDict

\* lines 362-371: the sender block of an envelope and its separator
envelope_sender(size, remetente_lines) ==
    LET width == Mm(LABEL_SIZES[size].width)
        height == Mm(LABEL_SIZES[size].height)
        margin == 10 * mm
        m == Len(remetente_lines)
        rem_y == height - margin - m * 10 * pt
    IN  [j \in 1..m |->
            DrawString(margin, height - margin - (j - 1) * 10 * pt,
                       remetente_lines[j], "Helvetica", 8)]
        \o <<DrawLine(margin, rem_y - 5 * pt, (width * 35) \div 100, rem_y - 5 * pt)>>

\* an envelope whose barcode follows the flag of the call alone
envelope_rest_unconditional(cliente_nome, end, size, with_barcode, cfg, io_ok) ==
    LET width == Mm(LABEL_SIZES[size].width)
        height == Mm(LABEL_SIZES[size].height)
        margin == 10 * mm
        dest_x == (width * 38) \div 100
        dest_y == (height * 55) \div 100
        address == _format_address_correios(end, cliente_nome)
        font_size == IF size = "envelope_c5" THEN 12 ELSE 11
        line_height == (font_size + 5) * pt
        n == Len(address.value)
        texts == [i \in 1..n |->
                    DrawString(dest_x, dest_y - (i - 1) * line_height,
                               address.value[i],
                               IF i = 1 \/ i = n THEN "Helvetica-Bold"
                               ELSE "Helvetica",
                               IF i = 1 THEN font_size + 2
                               ELSE IF i = n THEN font_size + 1 ELSE font_size)]
        barcode == IF with_barcode
                   THEN _draw_cepnet(end["cep"], dest_x,
                                     dest_y - n * line_height - 15 * mm,
                                     70 * mm, 12 * mm, io_ok)
                   ELSE Return(<<>>)
        selo == DrawRect(width - margin - 35 * mm, height - margin - 25 * mm,
                         35 * mm, 25 * mm)
    IN  IF address.err # "none" THEN address
        ELSE IF barcode.err # "none" THEN barcode
        ELSE Return(texts \o barcode.value \o <<selo>>)

\* lines 373-418: the destination block, the barcode and the stamp area
envelope_rest(cliente_nome, end, size, with_barcode, cfg, io_ok) ==
    LET width == Mm(LABEL_SIZES[size].width)
        height == Mm(LABEL_SIZES[size].height)
        margin == 10 * mm
        dest_x == (width * 38) \div 100
        dest_y == (height * 55) \div 100
        address == _format_address_correios(end, cliente_nome)
        font_size == IF size = "envelope_c5" THEN 12 ELSE 11
        line_height == (font_size + 5) * pt
        n == Len(address.value)
        texts == [i \in 1..n |->
                    DrawString(dest_x, dest_y - (i - 1) * line_height,
                               address.value[i],
                               IF i = 1 \/ i = n THEN "Helvetica-Bold"
                               ELSE "Helvetica",
                               IF i = 1 THEN font_size + 2
                               ELSE IF i = n THEN font_size + 1 ELSE font_size)]
        barcode == IF with_barcode /\ Get(cfg, "incluir_cepnet", TRUE)
                   THEN _draw_cepnet(end["cep"], dest_x,
                                     dest_y - n * line_height - 15 * mm,
                                     70 * mm, 12 * mm, io_ok)
                   ELSE Return(<<>>)
        selo == DrawRect(width - margin - 35 * mm, height - margin - 25 * mm,
                         35 * mm, 25 * mm)
    IN  IF address.err # "none" THEN address
        ELSE IF barcode.err # "none" THEN barcode
        ELSE Return(texts \o barcode.value \o <<selo>>)

\* lines 330-420: the page of an envelope, or the exception raised
generate_envelope(cliente_nome, end, size, with_barcode, with_remetente, rem, cfg, io_ok) ==
    IF size \notin DOMAIN LABEL_SIZES THEN Raise("KeyError")
    ELSE
    LET sender == IF with_remetente /\ remetente_set(rem)
                  THEN envelope_sender(size, _format_remetente_correios(rem).value)
                  ELSE <<>>
        rest == envelope_rest(cliente_nome, end, size, with_barcode, cfg, io_ok)
    IN  IF rest.err # "none" THEN rest
        ELSE Return(sender \o rest.value)

\* the identifiers tried, each with the characters it is made of: the
\* six that generate_label serves and four that it does not
LabelTypeChars ==
    [thermal_60x30 |->
        <<"t", "h", "e", "r", "m", "a", "l", "_", "6", "0", "x", "3", "0">>,
     thermal_100x80 |->
        <<"t", "h", "e", "r", "m", "a", "l", "_", "1", "0", "0", "x", "8", "0">>,
     pimaco_a4 |->
        <<"p", "i", "m", "a", "c", "o", "_", "a", "4">>,
     pimaco_6 |->
        <<"p", "i", "m", "a", "c", "o", "_", "6">>,
     envelope_dl |->
        <<"e", "n", "v", "e", "l", "o", "p", "e", "_", "d", "l">>,
     envelope_c5 |->
        <<"e", "n", "v", "e", "l", "o", "p", "e", "_", "c", "5">>,
     thermal_x |->
        <<"t", "h", "e", "r", "m", "a", "l", "_", "x">>,
     envelope_x |->
        <<"e", "n", "v", "e", "l", "o", "p", "e", "_", "x">>,
     pimaco |->
        <<"p", "i", "m", "a", "c", "o">>,
     sedex |->
        <<"s", "e", "d", "e", "x">>]

\* str.startswith
startswith(s, prefix) == IsPrefix(prefix, s)

thermal_ == <<"t", "h", "e", "r", "m", "a", "l", "_">>

envelope_ == <<"e", "n", "v", "e", "l", "o", "p", "e", "_">>

\* lines 486-509: the branch that an identifier takes
label_route(tipo_etiqueta) ==
    IF startswith(tipo_etiqueta, thermal_) THEN "thermal"
    ELSE IF tipo_etiqueta = LabelTypeChars["pimaco_a4"] THEN "14_per_sheet"
    ELSE IF tipo_etiqueta = LabelTypeChars["pimaco_6"] THEN "6_per_sheet"
    ELSE IF startswith(tipo_etiqueta, envelope_) THEN "envelope"
    ELSE "unsupported"

\* the call is over: what it returned or raised, and the pages it made
CallReturns(r) ==
    /\ pages' = IF r.err = "none" THEN <<r.value>> ELSE <<>>
    /\ page' = <<>>
    /\ result' = IF r.err = "none" THEN Return(pages') ELSE r
    /\ labels_data' = <<>>
    /\ pc' = "done"

\* generate_pimaco_sheet is entered with a batch; nothing is returned yet
CallSheet(layout, batch) ==
    /\ tipo' = layout
    /\ labels_data' = batch
    /\ pages' = <<>>
    /\ page' = <<>>
    /\ pc' = "call"
    /\ result' = Return(<<>>)

\* lines 475-509; the two sheet branches go on in generate_pimaco_sheet
GenerateLabel ==
    \E t \in DOMAIN LabelTypeChars :
        LET tipo_etiqueta == LabelTypeChars[t]
            route == label_route(tipo_etiqueta)
            io_ok == 1 \notin io_fail
        IN  /\ pc \in {"idle", "done"}
            /\ op' = "generate_label"
            /\ args' = [tipo_etiqueta |-> tipo_etiqueta]
            /\ CASE route = "thermal" ->
                      /\ tipo' = t
                      /\ CallReturns(generate_thermal_label(
                             nome, endereco, t, include_barcode,
                             include_remetente, remetente, config, io_ok))
                 [] route = "envelope" ->
                      /\ tipo' = t
                      /\ CallReturns(generate_envelope(
                             nome, endereco, t, include_barcode,
                             include_remetente, remetente, config, io_ok))
                 [] route \in {"14_per_sheet", "6_per_sheet"} ->
                      CallSheet(route, <<[cliente_nome |-> nome,
                                          endereco |-> endereco]>>)
                 [] route = "unsupported" ->
                      /\ tipo' = ""
                      /\ CallReturns(Raise("ValueError"))
            /\ label_index' = 0
            /\ row' = 0
            /\ col' = 0
            /\ cells' = <<>>
            /\ UNCHANGED <<cep, endereco, nome, genVars, include_barcode,
                           include_remetente, sideVars>>

\* the largest batch handed to generate_pimaco_sheet next to the single
\* labels of generate_label
MaxBatch == 7

\* lines 253-259: a batch is handed to generate_pimaco_sheet
GeneratePimacoSheet ==
    \E n \in 2..MaxBatch, layout \in {"14_per_sheet", "6_per_sheet"} :
        /\ pc \in {"idle", "done"}
        /\ op' = "generate_pimaco_sheet"
        /\ args' = [layout |-> layout]
        /\ CallSheet(layout, LabelsData(n))
        /\ label_index' = 0
        /\ row' = 0
        /\ col' = 0
        /\ cells' = <<>>
        /\ UNCHANGED <<cep, endereco, nome, genVars, include_barcode,
                       include_remetente, sideVars>>

\* the postal codes of the destinations tried: eight digits, plain and
\* masked, four digits and nine digits
LabelCeps ==
    {Cep71010050, <<"7", "1", "0", "1", "0", "-", "0", "5", "0">>,
     <<"7", "1", "0", "1">>, <<"7", "1", "0", "1", "0", "0", "5", "0", "9">>}

LabelEnderecos ==
    {[logradouro |-> <<"R", "u", "a", " ", "A">>, numero |-> <<"1", "2">>,
      bairro |-> <<"A", "s", "a", " ", "S", "u", "l">>,
      cidade |-> <<"B", "r", "a", "s", "i", "l", "i", "a">>,
      estado |-> <<"D", "F">>, cep |-> z] : z \in LabelCeps}

\* the renders that may fail: any of the first two of a call
MaxFail == 2

LabelInit ==
    /\ op = "init"
    /\ result = Return(<<>>)
    /\ cep = <<>>
    /\ endereco \in LabelEnderecos
    /\ nome = <<"A", "n", "a">>
    /\ remetente \in {NoRemetente, EmptyDict, SenderLoja}
    /\ config \in {[resolucao_dpi |-> 300, incluir_cepnet |-> b,
                    incluir_datamatrix |-> FALSE, fonte_padrao |-> "Helvetica",
                    tamanho_fonte_min |-> 10] : b \in BOOLEAN}
    /\ include_barcode \in BOOLEAN
    /\ include_remetente \in BOOLEAN
    /\ tipo = ""
    /\ labels_data = <<>>
    /\ label_index = 0
    /\ row = 0
    /\ col = 0
    /\ pc = "idle"
    /\ cells = <<>>
    /\ pages = <<>>
    /\ page = <<>>
    /\ args = EmptyDict
    /\ io_fail \in SUBSET (1..MaxFail)
    /\ files = EmptyDict
    /\ now = 0
    /\ threads = <<>>
    /\ seen = <<>>
    /\ SettingsNew
    /\ DatabaseNew

LabelNext ==
    \/ GenerateLabel
    \/ GeneratePimacoSheet
    \/ SheetEnter
    \/ SheetWhile
    \/ SheetDraw
    \/ SheetBreak
    \/ SheetEndFor
    \/ SheetSave

SpecLabel == LabelInit /\ [][LabelNext]_vars

\* the identifiers that generate_label serves
SupportedTypes ==
    {LabelTypeChars[t] : t \in {"thermal_60x30", "thermal_100x80", "pimaco_a4",
                                "pimaco_6", "envelope_dl", "envelope_c5"}}

\* a call of generate_label is over
LabelCallOver == "tipo_etiqueta" \in DOMAIN args /\ pc = "done"

\* C12: for every identifier that is not a supported label type, unknown
\* identifiers that begin with thermal_ or envelope_ among them,
\* generate_label fails with the unsupported-type error (ValueError), and
\* no canvas exists and nothing is drawn.
C12_UnsupportedType ==
    (LabelCallOver /\ args.tipo_etiqueta \notin SupportedTypes) =>
        /\ result = Raise("ValueError")
        /\ pages = <<>>
        /\ page = <<>>

\* a layout call of a supported type is over
LayoutCallOver ==
    /\ pc = "done"
    /\ tipo \in DOMAIN LABEL_SIZES \cup {"14_per_sheet", "6_per_sheet"}

IsSheet == tipo \in {"14_per_sheet", "6_per_sheet"}

\* the labels of the call that is over, in the order drawn
LabelsOfCall ==
    IF IsSheet THEN labels_data
    ELSE <<[cliente_nome |-> nome, endereco |-> endereco]>>

WithoutBarcode(ops) == SelectSeq(ops, LAMBDA o : o.kind # "drawImage")

Barcodes(ops) == SelectSeq(ops, LAMBDA o : o.kind = "drawImage")

\* what label k leaves on its page: all that it leaves where every render
\* succeeds, less its own barcode where its render fails
Undisturbed(k) ==
    IF IsSheet
    THEN _draw_label_content(cells[k].x, cells[k].y, Mm(sheet_config(tipo).width),
                             Mm(sheet_config(tipo).height),
                             cells[k].data.cliente_nome, cells[k].data.endereco,
                             include_barcode, sheet_font_size(tipo), config,
                             TRUE).value
    ELSE IF startswith(LabelTypeChars[tipo], thermal_)
    THEN generate_thermal_label(nome, endereco, tipo, include_barcode,
                                include_remetente, remetente, config, TRUE).value
    ELSE generate_envelope(nome, endereco, tipo, include_barcode,
                           include_remetente, remetente, config, TRUE).value

CellExpected(k) ==
    IF k \in io_fail THEN WithoutBarcode(Undisturbed(k)) ELSE Undisturbed(k)

PageExpected(p) ==
    IF IsSheet
    THEN Concat([k \in 1..Len(cells) |->
                    IF cells[k].page = p THEN CellExpected(k) ELSE <<>>])
    ELSE CellExpected(1)

\* the labels whose barcode is asked for and can be rendered
BarcodeDue ==
    {k \in 1..Len(LabelsOfCall) :
        /\ include_barcode
        /\ Get(config, "incluir_cepnet", TRUE)
        /\ NumDigits(LabelsOfCall[k].endereco.cep) >= 8
        /\ k \notin io_fail}

AllOps == Concat(pages)

\* C13: a barcode render that fails is caught where it fails: the call
\* still returns its finished pages, every address line of every label is
\* drawn, and each page holds what it would hold were no render to fail,
\* less the barcodes of the failing labels alone; the barcode of every
\* other label that is due one is drawn.
C13_BarcodeFailureLocal ==
    LayoutCallOver =>
        /\ result = Return(pages)
        /\ pages # <<>>
        /\ \A p \in 1..Len(pages) : pages[p] = PageExpected(p)
        /\ \A k \in 1..Len(LabelsOfCall) :
              LET lines == _format_address_correios(
                               LabelsOfCall[k].endereco,
                               LabelsOfCall[k].cliente_nome).value
              IN  \A i \in 1..Len(lines) :
                      \E j \in 1..Len(AllOps) :
                          /\ AllOps[j].kind = "drawString"
                          /\ AllOps[j].text = lines[i]
        /\ Len(Barcodes(AllOps)) = Cardinality(BarcodeDue)
        /\ \A k \in BarcodeDue :
              \E j \in 1..Len(AllOps) :
                  /\ AllOps[j].kind = "drawImage"
                  /\ Return(AllOps[j].text) = generate_barcode_pattern(
                         _normalize_cep(LabelsOfCall[k].endereco.cep))

\* a batch of seven on the 6-per-sheet layout whose first render failed:
\* both pages are there, labels 3 and 5 have their barcodes on the first
\* and label 7 has its barcode on the second
C13_Witness ==
    /\ pc = "done"
    /\ tipo = "6_per_sheet"
    /\ Len(labels_data) = 7
    /\ io_fail = {1}
    /\ include_barcode
    /\ config.incluir_cepnet
    /\ result.err = "none"
    /\ Len(pages) = 2
    /\ Len(Barcodes(pages[1])) = 2
    /\ Len(Barcodes(pages[2])) = 1
    /\ Len(WithoutBarcode(pages[1])) = 24

\* C14: where the barcode is asked for and the destination postal code
\* does not hold exactly 8 digits, the call of generate_label ends with
\* the invalid-length error (ValueError) and no page is returned.
C14_InvalidCepAborts ==
    (/\ LabelCallOver
     /\ args.tipo_etiqueta \in SupportedTypes
     /\ include_barcode
     /\ Get(config, "incluir_cepnet", TRUE)
     /\ NumDigits(endereco.cep) # 8) =>
        /\ result.err = "ValueError"
        /\ pages = <<>>

(***************************************************************************)
(* DataMatrix (services/correios_codes.py)                                 *)
(***************************************************************************)

\* n copies of the character ch
Fill(ch, n) == [i \in 1..n |-> ch]

\* s.ljust(n, ch)
ljust(s, n, ch) == IF Len(s) >= n THEN s ELSE s \o Fill(ch, n - Len(s))

\* s.zfill(n): zeros go after a leading sign
zfill(s, n) ==
    IF Len(s) >= n THEN s
    ELSE IF s # <<>> /\ s[1] \in {"+", "-"}
    THEN <<s[1]>> \o Fill("0", n - Len(s)) \o Tail(s)
    ELSE Fill("0", n - Len(s)) \o s

\* the widths of fields 1 to 13 of the structure the class documents
\* (lines 181-193); field 14 is the terminator
FieldWidths == <<8, 5, 8, 5, 1, 2, 34, 10, 5, 15, 9, 13, 54>>

\* lines 209-214, in ascending order of the codes
SERVICOS_ADICIONAIS ==
    <<[sigla |-> <<"A", "R">>, code |-> <<"0", "0", "1">>],
      [sigla |-> <<"M", "P">>, code |-> <<"0", "0", "2">>],
      [sigla |-> <<"V", "D">>, code |-> <<"0", "0", "3">>],
      [sigla |-> <<"D", "D">>, code |-> <<"0", "0", "4">>]>>

\* lines 216-221
calculate_cep_validator(c) ==
    LET digit == calculate_check_digit(c)
    IN  IF digit.err # "none" THEN digit ELSE Return(Str(digit.value))

\* the first five digits, with nothing filled in
format_numero_unfilled(numero) ==
    IF ~Truthy(numero)
       \/ Upper(numero) \in {<<"S", "N">>, <<"S", "/", "N">>, <<"S", ".", "N", ".">>}
    THEN <<"0", "0", "0", "0", "0">>
    ELSE Take(StripNonDigits(numero), 5)

\* lines 223-234
format_numero(numero) ==
    IF ~Truthy(numero)
       \/ Upper(numero) \in {<<"S", "N">>, <<"S", "/", "N">>, <<"S", ".", "N", ".">>}
    THEN <<"0", "0", "0", "0", "0">>
    ELSE zfill(Take(StripNonDigits(numero), 5), 5)

\* lines 236-252: the codes of the known services, sorted, joined and
\* filled up with zeros to 10 characters
format_servicos_adicionais(servicos) ==
    LET times(sigla) == Cardinality({i \in 1..Len(servicos) : Upper(servicos[i]) = sigla})
        sorted == Concat([j \in 1..4 |->
                            Concat([i \in 1..times(SERVICOS_ADICIONAIS[j].sigla) |->
                                       SERVICOS_ADICIONAIS[j].code])])
    IN  ljust(sorted, 10, "0")

\* lines 254-322
generate_content(a) ==
    LET cep_dest == ljust(Take(StripNonDigits(a.cep_destino), 8), 8, "0")
        cep_orig == ljust(Take(StripNonDigits(a.cep_origem), 8), 8, "0")
        validator == calculate_cep_validator(cep_dest)
        campos == <<cep_dest,
                    format_numero(a.numero_destino),
                    cep_orig,
                    format_numero(a.numero_origem),
                    validator.value,
                    zfill(Take(a.idv, 2), 2),
                    ljust(Take(a.cif, 34), 34, "0"),
                    format_servicos_adicionais(a.servicos_adicionais),
                    ljust(Take(a.codigo_servico, 5), 5, "0"),
                    Fill("0", 15),
                    ljust(Take(StripNonDigits(a.cnae), 9), 9, "0"),
                    ljust(Take(a.codigo_rastreamento, 13), 13, " "),
                    Take(a.campo_livre, 54),
                    <<"|">>>>
    IN  IF validator.err # "none" THEN validator ELSE Return(Concat(campos))

\* the longest campo_livre tried
MaxLivreLen == 55

AR == <<"A", "R">>

ContentInputs ==
    [cep_destino : {Cep71010050, <<"7", "1", "0", "1", "0", "-", "0", "5", "0">>,
                    <<"7", "1", "0", "1">>},
     numero_destino : {None, <<>>, <<"s", "n">>, <<"S", "/", "N">>, <<"1", "2">>,
                       <<"1", "2", "a">>, <<"1", "2", "3", "4", "5", "6">>,
                       <<"s", ".", "n", ".">>, <<"k", "m">>},
     cep_origem : {<<"2", "0", "0", "0", "0", "0", "0", "0">>},
     numero_origem : {<<"1", "0">>},
     idv : {<<"0", "3">>, <<"3">>, <<"0", "1", "7">>},
     cif : {<<>>, TextOfLen(35)},
     servicos_adicionais : {<<>>, <<AR>>, <<<<"m", "p">>, AR>>, <<<<"X", "X">>>>,
                            <<AR, AR>>,
                            <<<<"D", "D">>, <<"V", "D">>, <<"M", "P">>, AR>>},
     codigo_servico : {<<>>},
     cnae : {<<>>, <<"4", "7", ".", "1", "1", "-", "3", "/", "0", "2">>},
     codigo_rastreamento : {<<>>},
     campo_livre : {TextOfLen(n) : n \in {0, 3, 54, MaxLivreLen}}]

GenerateContent ==
    /\ op' = "generate_content"
    /\ result' = generate_content(args)
    /\ UNCHANGED <<argVars, sideVars, genVars, callVars, sheetVars, canvasVars>>

FormatNumero ==
    /\ op' = "format_numero"
    /\ result' = Return(format_numero(args.numero_destino))
    /\ UNCHANGED <<argVars, sideVars, genVars, callVars, sheetVars, canvasVars>>

FormatServicosAdicionais ==
    /\ op' = "format_servicos_adicionais"
    /\ result' = Return(format_servicos_adicionais(args.servicos_adicionais))
    /\ UNCHANGED <<argVars, sideVars, genVars, callVars, sheetVars, canvasVars>>

MatrixInit ==
    /\ op = "init"
    /\ result = Return(<<>>)
    /\ cep = <<>>
    /\ endereco = EmptyDict
    /\ nome = <<>>
    /\ args \in ContentInputs
    /\ GeneratorNew
    /\ NoLayoutCall
    /\ io_fail = {}
    /\ files = EmptyDict
    /\ now = 0
    /\ threads = <<>>
    /\ seen = <<>>
    /\ SettingsNew
    /\ DatabaseNew

MatrixNext ==
    \/ GenerateContent
    \/ FormatNumero
    \/ FormatServicosAdicionais

SpecMatrix == MatrixInit /\ [][MatrixNext]_vars

\* the sum of the widths of all fields and the terminator
PayloadLength == SumSeq(FieldWidths) + 1

\* C15: for every input generate_content returns a text of one fixed
\* length, the sum of the widths of all fields of the field table and the
\* one-character terminator, and the text ends with "|".
C15_FixedLength ==
    op = "generate_content" =>
        /\ result.err = "none"
        /\ Len(result.value) = PayloadLength
        /\ result.value[Len(result.value)] = "|"

\* the k-th group of three characters of t
Group(t, k) == SubSeq(t, 3 * k - 2, 3 * k)

\* C21: for every list of service names format_servicos_adicionais returns
\* exactly 10 digits: the 3-digit codes of the recognized services of the
\* list in ascending order, the rest zeros; unrecognized names add nothing.
C21_ServicesTenChars ==
    op = "format_servicos_adicionais" =>
        LET servicos == args.servicos_adicionais
            named == {SERVICOS_ADICIONAIS[j].code : j \in
                        {j \in 1..4 : \E i \in 1..Len(servicos) :
                            Upper(servicos[i]) = SERVICOS_ADICIONAIS[j].sigla}}
            t == result.value
        IN  /\ Len(t) = 10
            /\ \A i \in 1..Len(t) : t[i] \in DigitChars
            /\ \A code \in named : \E k \in 1..3 : Group(t, k) = code
            /\ \A k \in 1..3 : Group(t, k) \in named \cup {<<"0", "0", "0">>}
            /\ \A k \in 1..2 :
                  Group(t, k + 1) \in named =>
                      DigitValue(Group(t, k)[3]) <= DigitValue(Group(t, k + 1)[3])

\* C22: format_numero returns exactly 5 digits for every input: "00000"
\* for an absent or empty number, a no-number marker in any case and a
\* text without digits; otherwise the first 5 digits at most of the input
\* with zeros before them up to 5, further digits dropped without error.
C22_FormatNumero ==
    op = "format_numero" =>
        LET numero == args.numero_destino
            digits == IF numero = None THEN <<>> ELSE StripNonDigits(numero)
            marker == /\ numero # None
                      /\ Upper(numero) \in {<<"S", "N">>, <<"S", "/", "N">>,
                                             <<"S", ".", "N", ".">>}
            kept == Take(digits, 5)
        IN  /\ result.err = "none"
            /\ Len(result.value) = 5
            /\ \A i \in 1..5 : result.value[i] \in DigitChars
            /\ IF marker \/ digits = <<>>
               THEN result.value = Fill("0", 5)
               ELSE result.value = Fill("0", 5 - Len(kept)) \o kept

\* a number of six digits was formatted, and one of two
C22_Witness ==
    /\ op = "format_numero"
    /\ \/ /\ args.numero_destino = <<"1", "2", "3", "4", "5", "6">>
          /\ result.value = <<"1", "2", "3", "4", "5">>
       \/ /\ args.numero_destino = <<"1", "2", "a">>
          /\ result.value = <<"0", "0", "0", "1", "2">>

(***************************************************************************)
(* _draw_cepnet in two threads, statement by statement                     *)
(* (label_generator.py; main.py serves each request in a worker thread)    *)
(***************************************************************************)

\* the last reading of the clock that the model follows
MaxTicks == 2

\* no temporary path is bound yet
NoPath == -1

Cep20000000 == <<"2", "0", "0", "0", "0", "0", "0", "0">>

\* the locals of a call of _draw_cepnet that is about to start
ThreadStart(c) ==
    [pc |-> "call", cep |-> c, img |-> <<>>, temp_path |-> NoPath,
     drawn |-> <<>>, caught |-> "none"]

\* the locals of thread t after a step
Becomes(t, locals) == threads' = [threads EXCEPT ![t] = locals]

\* os.remove(path) on the directory
without(fs, path) == [p \in DOMAIN fs \ {path} |-> fs[p]]

\* img.save(path) on the directory: the file is created or overwritten
with_file(fs, path, img) ==
    [p \in DOMAIN fs \cup {path} |-> IF p = path THEN img ELSE fs[p]]

\* the clock moves on between two statements
Tick ==
    /\ now < MaxTicks
    /\ now' = now + 1
    /\ UNCHANGED <<op, result, argVars, genVars, callVars, sheetVars, canvasVars,
                   io_fail, files, threadVars, settingsVars, dbVars>>

\* lines 136-137: the image of the normalized code, or the exception that
\* the handler of lines 169-170 catches
TempGenerateImage ==
    \E t \in DOMAIN threads :
        LET my == threads[t]
            pattern == generate_barcode_pattern(_normalize_cep(my.cep))
        IN  /\ my.pc = "call"
            /\ IF pattern.err # "none"
               THEN Becomes(t, [my EXCEPT !.pc = "done", !.caught = pattern.err])
               ELSE Becomes(t, [my EXCEPT !.pc = "timestamp", !.img = pattern.value])
            /\ op' = "_draw_cepnet"
            /\ UNCHANGED <<result, argVars, genVars, callVars, sheetVars,
                           canvasVars, envVars, seen, settingsVars, dbVars>>

\* lines 139-142: the path is named after the clock alone
TempPath ==
    \E t \in DOMAIN threads :
        LET my == threads[t]
        IN  /\ my.pc = "timestamp"
            /\ Becomes(t, [my EXCEPT !.pc = "save", !.temp_path = now])
            /\ op' = "_draw_cepnet"
            /\ UNCHANGED <<result, argVars, genVars, callVars, sheetVars,
                           canvasVars, envVars, seen, settingsVars, dbVars>>

\* line 143
TempSave ==
    \E t \in DOMAIN threads :
        LET my == threads[t]
        IN  /\ my.pc = "save"
            /\ files' = with_file(files, my.temp_path, my.img)
            /\ Becomes(t, [my EXCEPT !.pc = "drawImage"])
            /\ op' = "_draw_cepnet"
            /\ UNCHANGED <<result, argVars, genVars, callVars, sheetVars,
                           canvasVars, io_fail, now, seen, settingsVars, dbVars>>

\* lines 161-167: the file at the path is read and drawn, whatever it
\* holds; a missing file raises, and so does the canvas for the calls
\* of io_fail: the handler of lines 169-170 catches, and line 168 is
\* not reached
TempDrawImage ==
    \E t \in DOMAIN threads :
        LET my == threads[t]
        IN  /\ my.pc = "drawImage"
            /\ IF my.temp_path \notin DOMAIN files
               THEN Becomes(t, [my EXCEPT !.pc = "done", !.caught = "OSError"])
               ELSE IF t \in io_fail
               THEN Becomes(t, [my EXCEPT !.pc = "done", !.caught = "Exception"])
               ELSE Becomes(t, [my EXCEPT !.pc = "remove",
                                          !.drawn = files[my.temp_path]])
            /\ op' = "_draw_cepnet"
            /\ UNCHANGED <<result, argVars, genVars, callVars, sheetVars,
                           canvasVars, envVars, seen, settingsVars, dbVars>>

\* line 168: the file at the path is removed; a missing file raises, and
\* the handler catches
TempRemove ==
    \E t \in DOMAIN threads :
        LET my == threads[t]
        IN  /\ my.pc = "remove"
            /\ IF my.temp_path \in DOMAIN files
               THEN /\ files' = without(files, my.temp_path)
                    /\ Becomes(t, [my EXCEPT !.pc = "done"])
               ELSE /\ UNCHANGED files
                    /\ Becomes(t, [my EXCEPT !.pc = "done",
                                             !.caught = "FileNotFoundError"])
            /\ op' = "_draw_cepnet"
            /\ UNCHANGED <<result, argVars, genVars, callVars, sheetVars,
                           canvasVars, io_fail, now, seen, settingsVars, dbVars>>

TempInit ==
    /\ op = "init"
    /\ result = Return(<<>>)
    /\ cep = <<>>
    /\ endereco = EmptyDict
    /\ nome = <<>>
    /\ args = EmptyDict
    /\ GeneratorNew
    /\ NoLayoutCall
    /\ io_fail \in SUBSET {1, 2}
    /\ files = EmptyDict
    /\ now = 0
    /\ threads \in {[t \in {1, 2} |-> ThreadStart(IF t = 1 THEN c1 ELSE c2)] :
                       c1 \in {Cep71010050},
                       c2 \in {Cep71010050, Cep20000000, <<"7", "1", "0", "1">>}}
    /\ seen = <<>>
    /\ SettingsNew
    /\ DatabaseNew

TempNext ==
    \/ Tick
    \/ TempGenerateImage
    \/ TempPath
    \/ TempSave
    \/ TempDrawImage
    \/ TempRemove

SpecTemp == TempInit /\ [][TempNext]_vars

\* C16: two renders never use the same temporary path; the image drawn
\* on a label is the one made from the postal code of that label; and the
\* file that a call is about to draw is there and holds the image that
\* the call saved.
C16_TempPathsDistinct ==
    /\ \A t1, t2 \in DOMAIN threads :
          (/\ t1 # t2
           /\ threads[t1].temp_path # NoPath
           /\ threads[t2].temp_path # NoPath) =>
              threads[t1].temp_path # threads[t2].temp_path
    /\ \A t \in DOMAIN threads :
          threads[t].drawn # <<>> =>
              Return(threads[t].drawn) =
                  generate_barcode_pattern(_normalize_cep(threads[t].cep))
    /\ \A t \in DOMAIN threads :
          threads[t].pc = "drawImage" =>
              /\ threads[t].temp_path \in DOMAIN files
              /\ files[threads[t].temp_path] = threads[t].img

\* the barcode of another label is drawn
WrongBarcodeDrawn ==
    \E t \in DOMAIN threads :
        /\ threads[t].drawn # <<>>
        /\ Return(threads[t].drawn) #
               generate_barcode_pattern(_normalize_cep(threads[t].cep))

\* a call finds the file it saved removed by the other call
BarcodeLost ==
    \E t \in DOMAIN threads :
        /\ threads[t].pc = "done"
        /\ threads[t].img # <<>>
        /\ threads[t].caught = "OSError"

\* every call of _draw_cepnet has returned
AllReturned == \A t \in DOMAIN threads : threads[t].pc = "done"

\* C24: once the calls of _draw_cepnet have returned, whether each drew its
\* barcode or failed at some step, no temporary file is left in the
\* directory.
C24_TempFileDiscarded ==
    AllReturned => DOMAIN files = {}

\* both calls drew and both have returned
BothDrawn ==
    /\ AllReturned
    /\ \A t \in DOMAIN threads : threads[t].drawn # <<>>

(***************************************************************************)
(* generate_envelope, read by read, with set_remetente from another        *)
(* request (label_generator.py, main.py)                                   *)
(***************************************************************************)

SenderFilial ==
    [nome |-> <<"F", "i", "l", "i", "a", "l">>,
     logradouro |-> <<"A", "v", " ", "C">>, numero |-> <<"7">>,
     complemento |-> <<>>, bairro |-> <<"S", "u", "l">>,
     cidade |-> <<"N", "a", "t", "a", "l">>, estado |-> <<"R", "N">>,
     cep |-> <<"5", "9", "0", "0", "0", "0", "0", "0">>]

\* the senders that other requests set while the call runs
SenderInputs == {SenderLoja, SenderFilial, EmptyDict}

\* lines 52-54, called by another request (main.py:184, 553)
SenderSetRemetente ==
    \E r \in SenderInputs :
        /\ op' = "set_remetente"
        /\ remetente' = r
        /\ UNCHANGED <<result, argVars, sideVars, config, callVars, sheetVars,
                       canvasVars>>

\* a read of self.remetente by the running call
ReadsRemetente == seen' = Append(seen, remetente)

\* lines 351-358
EnvelopeEnter ==
    /\ pc = "call"
    /\ op' = "generate_envelope"
    /\ IF tipo \notin DOMAIN LABEL_SIZES
       THEN /\ result' = Raise("KeyError")
            /\ pc' = "done"
       ELSE /\ pc' = "check"
            /\ UNCHANGED result
    /\ pages' = <<>>
    /\ page' = <<>>
    /\ UNCHANGED <<argVars, sideVars, genVars, callVars, labels_data,
                   label_index, row, col, cells>>

\* line 361
EnvelopeCheck ==
    /\ pc = "check"
    /\ ReadsRemetente
    /\ pc' = IF include_remetente /\ remetente_set(remetente)
             THEN "guard" ELSE "rest"
    /\ UNCHANGED <<op, result, argVars, envVars, threads, settingsVars, dbVars, genVars,
                   callVars, labels_data, label_index, row, col, cells,
                   canvasVars>>

\* lines 112-113, inside _format_remetente_correios
EnvelopeGuard ==
    /\ pc = "guard"
    /\ ReadsRemetente
    /\ pc' = IF remetente_set(remetente) THEN "line1" ELSE "draw"
    /\ UNCHANGED <<op, result, argVars, envVars, threads, settingsVars, dbVars, genVars,
                   callVars, labels_data, label_index, row, col, cells,
                   canvasVars>>

\* lines 116, 118-125 and 127-128: each line is made from self.remetente
\* as it is when the line is made
EnvelopeFormatLine ==
    /\ pc \in {"line1", "line2", "line3"}
    /\ ReadsRemetente
    /\ pc' = CASE pc = "line1" -> "line2"
               [] pc = "line2" -> "line3"
               [] pc = "line3" -> "draw"
    /\ UNCHANGED <<op, result, argVars, envVars, threads, settingsVars, dbVars, genVars,
                   callVars, labels_data, label_index, row, col, cells,
                   canvasVars>>

\* the line that _format_remetente_correios makes at lines 116, 118-125
\* or 127-128 from the sender it reads there
line_of(rem, k) ==
    IF remetente_set(rem) THEN _format_remetente_correios(rem).value[k]
    ELSE IF k = 1 THEN <<"R", "e", "m", ":", " ">>
    ELSE IF k = 2 THEN <<",", " ">> \o SemNumero
    ELSE <<" ", "/">>

\* the list that _format_remetente_correios returned to the running call
remetente_lines_read ==
    IF Len(seen) < 5 THEN <<>>
    ELSE [k \in 1..3 |-> line_of(seen[k + 2], k)]

\* lines 362-371
EnvelopeDrawSender ==
    /\ pc = "draw"
    /\ page' = envelope_sender(tipo, remetente_lines_read)
    /\ pc' = "rest"
    /\ UNCHANGED <<op, result, argVars, sideVars, genVars, callVars,
                   labels_data, label_index, row, col, cells, pages>>

\* lines 373-420
EnvelopeRest ==
    /\ pc = "rest"
    /\ LET rest == envelope_rest(nome, endereco, tipo, include_barcode, config,
                                 1 \notin io_fail)
       IN  IF rest.err # "none"
           THEN /\ result' = rest
                /\ UNCHANGED <<pages, page>>
           ELSE /\ pages' = <<page \o rest.value>>
                /\ page' = <<>>
                /\ result' = Return(pages')
    /\ pc' = "done"
    /\ UNCHANGED <<op, argVars, sideVars, genVars, callVars, labels_data,
                   label_index, row, col, cells>>

SenderInit ==
    /\ op = "init"
    /\ result = Return(<<>>)
    /\ cep = <<>>
    /\ endereco \in LabelEnderecos
    /\ nome = <<"A", "n", "a">>
    /\ remetente \in {NoRemetente, SenderLoja}
    /\ config = [resolucao_dpi |-> 300, incluir_cepnet |-> TRUE,
                 incluir_datamatrix |-> FALSE, fonte_padrao |-> "Helvetica",
                 tamanho_fonte_min |-> 10]
    /\ tipo \in {"envelope_dl", "envelope_c5", "envelope_x"}
    /\ include_barcode \in BOOLEAN
    /\ include_remetente \in BOOLEAN
    /\ labels_data = <<>>
    /\ label_index = 0
    /\ row = 0
    /\ col = 0
    /\ pc = "call"
    /\ cells = <<>>
    /\ pages = <<>>
    /\ page = <<>>
    /\ NoSideCall
    /\ SettingsNew
    /\ DatabaseNew

SenderNext ==
    \/ SenderSetRemetente
    \/ EnvelopeEnter
    \/ EnvelopeCheck
    \/ EnvelopeGuard
    \/ EnvelopeFormatLine
    \/ EnvelopeDrawSender
    \/ EnvelopeRest

SpecSender == SenderInit /\ [][SenderNext]_vars

\* C17: under every interleaving of set_remetente with a running
\* generate_envelope, the presence check and every sender line of the
\* page come from one sender value: all reads of the sender by the call
\* give the same value.
C17_OneSenderValue ==
    \A i, j \in 1..Len(seen) : seen[i] = seen[j]

\* the sender block of a finished page names one sender and gives the
\* postal code of another
MixedSenderBlock ==
    /\ pc = "done"
    /\ result.err = "none"
    /\ Len(seen) = 5
    /\ pages[1][1].text = line_of(SenderLoja, 1)
    /\ pages[1][3].text = line_of(SenderFilial, 3)

\* where no update falls between the reads, the steps give the page of
\* generate_envelope
StepsAgree ==
    (pc = "done" /\ C17_OneSenderValue /\ seen # <<>>) =>
        result = LET r == generate_envelope(nome, endereco, tipo, include_barcode,
                                            include_remetente, seen[1], config,
                                            1 \notin io_fail)
                 IN  IF r.err = "none" THEN Return(<<r.value>>) ELSE r

(***************************************************************************)
(* CEPNet.generate_image (services/correios_codes.py)                      *)
(***************************************************************************)

\* int(x * 0.5): the half of x, rounded towards zero
int_half(x) == IF x >= 0 THEN x \div 2 ELSE -((-x) \div 2)

\* line 158: the caption under the bars
cep_display(cep_formatted) ==
    SubSeq(cep_formatted, 1, 5) \o <<"-">> \o SubSeq(cep_formatted, 6, 8)
        \o <<" ", "(", cep_formatted[9], ")">>

\* lines 109-173: the size of the image made by Image.new, the rectangle
\* of each bar and the caption, or the exception raised
generate_image(c, width, height, bar_width, include_text) ==
    LET pattern == generate_barcode_pattern(c)
        num_bars == Len(pattern.value)
        actual_width == num_bars * bar_width + 20
        bar_area_height == IF include_text THEN height - 15 ELSE height - 5
        high_bar_height == bar_area_height
        low_bar_height == int_half(bar_area_height)
        bars == [i \in 1..num_bars |->
                    LET x == 10 + (i - 1) * bar_width
                        bar_height == IF pattern.value[i] = "A"
                                      THEN high_bar_height ELSE low_bar_height
                    IN  [x0 |-> x, y0 |-> 2, x1 |-> x + bar_width - 1,
                         y1 |-> 2 + bar_height]]
        caption == IF include_text
                   THEN cep_display(format_cep_with_check(c).value)
                   ELSE <<>>
    IN  IF pattern.err # "none" THEN pattern
        ELSE Return([width |-> actual_width, height |-> height, bars |-> bars,
                     caption |-> caption])

\* the keyword arguments tried; width 200, height 40, bar_width 2 and
\* include_text True are the defaults, which _generate_cepnet_image uses
ImageInputs ==
    [width : {114, 200, 300}, height : {30, 40}, bar_width : {1, 2, 3},
     include_text : BOOLEAN]

GenerateImage ==
    /\ op' = "generate_image"
    /\ result' = generate_image(cep, args.width, args.height, args.bar_width,
                                args.include_text)
    /\ UNCHANGED <<argVars, sideVars, genVars, callVars, sheetVars, canvasVars>>

ImageInit ==
    /\ op = "init"
    /\ result = Return(<<>>)
    /\ cep \in {Cep71010050, Cep20000000, <<"7", "1", "0", "1">>}
    /\ endereco = EmptyDict
    /\ nome = <<>>
    /\ args \in ImageInputs
    /\ GeneratorNew
    /\ NoLayoutCall
    /\ io_fail = {}
    /\ files = EmptyDict
    /\ now = 0
    /\ threads = <<>>
    /\ seen = <<>>
    /\ SettingsNew
    /\ DatabaseNew

ImageNext == GenerateImage

SpecImage == ImageInit /\ [][ImageNext]_vars

\* C18: the image that generate_image returns is as wide and as high, in
\* pixels, as the width and the height passed by the caller, whatever the
\* width, the height and the bar width.
C18_ImageDimensions ==
    (op = "generate_image" /\ result.err = "none") =>
        /\ result.value.width = args.width
        /\ result.value.height = args.height

(***************************************************************************)
(* SystemSettings (services/settings_service.py)                           *)
(*                                                                         *)
(* dict.copy() copies the outer dict alone.  aliased is the set of the     *)
(* sections whose inner dict is one object, held by settings and by        *)
(* DEFAULT_SETTINGS alike: what is stored into such a section through      *)
(* one of the two shows through the other.                                 *)
(***************************************************************************)

\* settings, DEFAULT_SETTINGS and the sections they share
Heap == [settings |-> settings, defaults |-> DEFAULT_SETTINGS, aliased |-> aliased]

\* the inner dict of section s of settings is changed in place to v
StoreInPlace(h, s, v) ==
    [settings |-> [h.settings EXCEPT ![s] = v],
     defaults |-> IF s \in h.aliased THEN [h.defaults EXCEPT ![s] = v]
                  ELSE h.defaults,
     aliased |-> h.aliased]

\* section s of settings is bound to a new dict v
Rebind(h, s, v) ==
    [settings |-> [h.settings EXCEPT ![s] = v], defaults |-> h.defaults,
     aliased |-> h.aliased \ {s}]

\* datetime.now().isoformat()
isoformat(t) == <<"T">> \o Str(t)

\* line 119: the time is stored into the metadata dict
stamp(h) ==
    StoreInPlace(h, "metadata",
                 dict_update(h.settings["metadata"],
                             [last_updated |-> isoformat(now)]))

\* lines 117-124, after a handler has left the heap as h
_save_settings(h) ==
    /\ settings' = stamp(h).settings
    /\ DEFAULT_SETTINGS' = stamp(h).defaults
    /\ aliased' = stamp(h).aliased
    /\ disk' = stamp(h).settings

\* a handler that saves nothing leaves the heap as h
Leaves(h) ==
    /\ settings' = h.settings
    /\ DEFAULT_SETTINGS' = h.defaults
    /\ aliased' = h.aliased
    /\ UNCHANGED disk

LongToken == <<"s", "k", "-", "b", "e", "n", "u", "-", "1", "2", "3", "4", "5">>

ShortToken == <<"s", "e", "c", "r", "e", "t">>

\* the section and the body of the requests tried
UpdateInputs ==
    {[section |-> "etiquetas", data |-> [incluir_cepnet |-> FALSE]],
     [section |-> "remetente", data |-> [nome |-> <<"L", "o", "j", "a">>]],
     [section |-> "nope", data |-> EmptyDict]}

\* the handlers below leave the generator and the canvases alone
SettingsFrame ==
    UNCHANGED <<cep, endereco, nome, genVars, callVars, sheetVars, canvasVars,
                envVars, threadVars, dbVars>>

\* lines 169-176
Update ==
    \E a \in UpdateInputs :
        /\ op' = "update"
        /\ args' = a
        /\ IF a.section \notin DOMAIN settings
           THEN /\ result' = Return(FALSE)
                /\ Leaves(Heap)
           ELSE /\ result' = Return(TRUE)
                /\ _save_settings(StoreInPlace(Heap, a.section,
                       dict_update(settings[a.section], a.data)))
        /\ SettingsFrame

\* lines 178-182
SetBenuToken ==
    \E token \in {LongToken, ShortToken} :
        /\ op' = "set_benu_token"
        /\ args' = [token |-> token]
        /\ result' = Return(TRUE)
        /\ _save_settings(StoreInPlace(Heap, "benu_api",
               dict_update(settings["benu_api"], [token |-> token])))
        /\ SettingsFrame

\* lines 184-188
SettingsSetRemetente ==
    \E data \in {[nome |-> <<"F", "i", "l", "i", "a", "l">>,
                  cep |-> <<"5", "9", "0", "0", "0", "0", "0", "0">>]} :
        /\ op' = "set_remetente"
        /\ args' = [data |-> data]
        /\ result' = Return(TRUE)
        /\ _save_settings(StoreInPlace(Heap, "remetente",
               dict_update(settings["remetente"], data)))
        /\ SettingsFrame

\* lines 241-247
ResetSection ==
    \E section \in {"etiquetas", "remetente", "benu_api", "metadata", "nope"} :
        /\ op' = "reset_section"
        /\ args' = [section |-> section]
        /\ IF section \in DOMAIN DEFAULT_SETTINGS
           THEN /\ result' = Return(TRUE)
                /\ _save_settings(Rebind(Heap, section, DEFAULT_SETTINGS[section]))
           ELSE /\ result' = Return(FALSE)
                /\ Leaves(Heap)
        /\ SettingsFrame

\* lines 249-253
ResetAll ==
    /\ op' = "reset_all"
    /\ args' = EmptyDict
    /\ result' = Return(TRUE)
    /\ _save_settings([settings |-> DEFAULT_SETTINGS, defaults |-> DEFAULT_SETTINGS,
                       aliased |-> DOMAIN DEFAULT_SETTINGS])
    /\ SettingsFrame

\* token[-4:]
last4(s) == SubSeq(s, IF Len(s) > 4 THEN Len(s) - 3 ELSE 1, Len(s))

\* line 134
mask(token) ==
    IF Len(token) > 12 THEN Take(token, 8) \o <<".", ".", ".">> \o last4(token)
    ELSE <<"*", "*", "*">>

\* lines 132-138: the two keys stored into result["benu_api"]
masked_fields(benu) ==
    IF Truthy(Get(benu, "token", None))
    THEN [token_masked |-> mask(benu["token"]), token_set |-> TRUE]
    ELSE [token_masked |-> <<>>, token_set |-> FALSE]

\* lines 128-139: result is a copy of the outer dict, so result["benu_api"]
\* is the inner dict of settings, and the two keys are stored into it
get_all(h) ==
    LET after == StoreInPlace(h, "benu_api",
                     dict_update(h.settings["benu_api"],
                                 masked_fields(h.settings["benu_api"])))
    IN  [listing |-> after.settings, heap |-> after]

\* lines 128-139, served by main.py:160-163
GetAll ==
    /\ op' = "get_all"
    /\ args' = EmptyDict
    /\ result' = Return(get_all(Heap).listing)
    /\ Leaves(get_all(Heap).heap)
    /\ SettingsFrame

\* lines 107-113, for an override whose sections are dicts of plain values
deep_merge(base, override) ==
    [s \in DOMAIN base \cup DOMAIN override |->
        IF s \in DOMAIN base /\ s \in DOMAIN override
        THEN dict_update(base[s], override[s])
        ELSE IF s \in DOMAIN override THEN override[s] ELSE base[s]]

\* the process starts anew: the class body binds DEFAULT_SETTINGS to the
\* literal and lines 87-115 load CONFIG_FILE; deep_merge stores the saved
\* values into the inner dicts of DEFAULT_SETTINGS themselves
Restart ==
    /\ op' = "_load_settings"
    /\ args' = EmptyDict
    /\ result' = Return(TRUE)
    /\ LET loaded == IF disk = NoFile THEN DefaultSettingsLiteral
                     ELSE deep_merge(DefaultSettingsLiteral, disk)
       IN  Leaves([settings |-> loaded, defaults |-> loaded,
                   aliased |-> DOMAIN DefaultSettingsLiteral])
    /\ SettingsFrame

SettingsInit ==
    /\ op = "init"
    /\ result = Return(<<>>)
    /\ cep = <<>>
    /\ endereco = EmptyDict
    /\ nome = <<>>
    /\ GeneratorNew
    /\ NoLayoutCall
    /\ NoSideCall
    /\ SettingsNew
    /\ DatabaseNew

SettingsNext ==
    \/ Update
    \/ SetBenuToken
    \/ SettingsSetRemetente
    \/ ResetSection
    \/ ResetAll
    \/ GetAll
    \/ Restart

SpecSettings == SettingsInit /\ [][SettingsNext]_vars

\* the sections that settings and DEFAULT_SETTINGS share hold the same
\* values in both
AliasedAgree ==
    \A s \in aliased : settings[s] = DEFAULT_SETTINGS[s]

\* C19: the factory defaults are never changed by update, set_remetente,
\* set_benu_token or a load, and after reset_section on an existing
\* section that section holds the factory default values, whatever calls
\* came before.
C19_ResetRestoresDefaults ==
    /\ DEFAULT_SETTINGS = DefaultSettingsLiteral
    /\ (op = "reset_section" /\ args.section \in DOMAIN DefaultSettingsLiteral) =>
          settings[args.section] = DefaultSettingsLiteral[args.section]

\* the etiquetas section was reset and incluir_cepnet still has the value
\* of an earlier update
ResetKeepsUpdate ==
    /\ op = "reset_section"
    /\ args.section = "etiquetas"
    /\ settings["etiquetas"].incluir_cepnet = FALSE

\* C20: the listing of get_all hides the token: where a token is stored,
\* no text of the benu_api section of the listing is the full token, and
\* a masked form and the token_set flag are there; and get_all leaves the
\* stored settings as they were.
C20_TokenHidden ==
    [][op' = "get_all" =>
        LET benu == result'.value["benu_api"]
            token == settings["benu_api"].token
        IN  /\ settings' = settings
            /\ DEFAULT_SETTINGS' = DEFAULT_SETTINGS
            /\ {"token_masked", "token_set"} \subseteq DOMAIN benu
            /\ Truthy(token) =>
                  /\ benu.token_set
                  /\ \A k \in {"token", "token_masked"} \cap DOMAIN benu :
                        benu[k] # token]_vars

\* the listing carries the stored token in full
TokenListed ==
    /\ op = "get_all"
    /\ result.value["benu_api"].token = LongToken
    /\ result.value["benu_api"].token_masked
           = <<"s", "k", "-", "b", "e", "n", "u", "-", ".", ".", ".", "2", "3", "4", "5">>

(***************************************************************************)
(* The sender block in the layouts                                         *)
(***************************************************************************)

\* all that the call that is over has drawn, page after page
OpsOfCall == Concat(pages)

OfKind(ops, kinds) == SelectSeq(ops, LAMBDA o : o.kind \in kinds)

\* the lines of the sender in use
SenderLines == _format_remetente_correios(remetente).value

\* C23: a thermal label carries the sender block only when
\* include_remetente is true, a sender is set and the format is
\* thermal_100x80; its lines are then drawn right-aligned, the last line
\* lowest and the others above it in reverse order.  With no sender set,
\* no layout (thermal, sheet, envelope) draws a sender line or the
\* separator of the sender block: only the destination lines, the barcode
\* and the stamp area are on the pages.
C23_SenderBlock ==
    (LayoutCallOver /\ result.err = "none") =>
        LET ops == OpsOfCall
            right == OfKind(ops, {"drawRightString"})
            m == Len(SenderLines)
        IN  /\ tipo \in {"thermal_60x30", "thermal_100x80"} =>
                IF include_remetente /\ remetente_set(remetente)
                   /\ tipo = "thermal_100x80"
                THEN /\ Len(right) = m
                     /\ m > 0
                     /\ \A j \in 1..m :
                          /\ right[j].text = SenderLines[m + 1 - j]
                          /\ right[j].x = Mm(LABEL_SIZES[tipo].width) - 2 * mm
                          /\ right[j].y = 3 * mm + (j - 1) * 8 * pt
                ELSE right = <<>>
            /\ ~remetente_set(remetente) =>
                /\ OfKind(ops, {"drawRightString", "line"}) = <<>>
                /\ Len(OfKind(ops, {"drawString"})) = 4 * Len(LabelsOfCall)

\* a thermal_100x80 label with the sender block, the line of the postal
\* code lowest
C23_Witness ==
    /\ LayoutCallOver
    /\ result.err = "none"
    /\ tipo = "thermal_100x80"
    /\ include_remetente
    /\ remetente = SenderLoja
    /\ Len(OfKind(OpsOfCall, {"drawRightString"})) = 3
    /\ OfKind(OpsOfCall, {"drawRightString"})[1].text = SenderLines[3]
    /\ OfKind(OpsOfCall, {"drawRightString"})[1].y = 3 * mm

\* an envelope, a sheet and a small thermal label made with no sender set
\* and include_remetente true
SenderlessLayouts ==
    /\ LayoutCallOver
    /\ result.err = "none"
    /\ include_remetente
    /\ ~remetente_set(remetente)
    /\ tipo \in {"envelope_dl", "14_per_sheet"}

(***************************************************************************)
(* generate_envelope with long destination lines                           *)
(***************************************************************************)

\* lines 330-420, called as generate_label calls it
GenerateEnvelope ==
    \E size \in {"envelope_dl", "envelope_c5"} :
        LET r == generate_envelope(nome, endereco, size, include_barcode,
                                   include_remetente, remetente, config,
                                   1 \notin io_fail)
        IN  /\ op' = "generate_envelope"
            /\ tipo' = size
            /\ pages' = IF r.err = "none" THEN <<r.value>> ELSE <<>>
            /\ page' = <<>>
            /\ result' = IF r.err = "none" THEN Return(pages') ELSE r
            /\ UNCHANGED <<argVars, sideVars, genVars, include_barcode, include_remetente,
                           sheetVars>>

EnvelopeNext ==
    \/ GenerateEnvelope

SpecEnvelope == DrawInit /\ [][EnvelopeNext]_vars

\* where the destination block of an envelope starts (line 374)
dest_x_of(size) == (Mm(LABEL_SIZES[size].width) * 38) \div 100

\* the characters that fit between the start of the destination block and
\* the right margin of the envelope, at half the font size a character as
\* in the other layouts
EnvelopeMaxChars(size, font_size) ==
    max_chars_of(Mm(LABEL_SIZES[size].width) - dest_x_of(size) - 10 * mm,
                 font_size, 50)

\* the destination lines on the envelope made by the last call
EnvelopeDestinationOps ==
    SelectSeq(pages[1], LAMBDA o : o.kind = "drawString" /\ o.x = dest_x_of(tipo))

\* C26: the truncation policy holds in the envelope layout as well: a
\* destination line longer than the characters that fit the available
\* width is drawn cut, with "..." at its end, and never at full length.
C26_EnvelopeTruncation ==
    (op = "generate_envelope" /\ result.err = "none") =>
        LET lines == _format_address_correios(endereco, nome).value
        IN  /\ Len(EnvelopeDestinationOps) = Len(lines)
            /\ \A i \in 1..Len(lines) :
                  LET drawn == EnvelopeDestinationOps[i].text
                      max == EnvelopeMaxChars(tipo, EnvelopeDestinationOps[i].size)
                  IN  Len(lines[i]) > max =>
                          /\ Len(drawn) <= max
                          /\ drawn # lines[i]
                          /\ SubSeq(drawn, Len(drawn) - 2, Len(drawn)) = Ellipsis

(***************************************************************************)
(* set_config between generation calls                                     *)
(***************************************************************************)

\* lines 56-58, called while no generation call is running
SetConfigBetweenCalls ==
    /\ pc \in {"idle", "done"}
    /\ \E u \in {[incluir_cepnet |-> FALSE], [incluir_cepnet |-> TRUE],
                  [resolucao_dpi |-> 600]} : SetConfigTo(u)

FlagInit ==
    /\ op = "init"
    /\ result = Return(<<>>)
    /\ cep = <<>>
    /\ endereco \in {e \in LabelEnderecos : e.cep = Cep71010050}
    /\ nome = <<"A", "n", "a">>
    /\ GeneratorNew
    /\ include_barcode \in BOOLEAN
    /\ include_remetente = FALSE
    /\ tipo = ""
    /\ labels_data = <<>>
    /\ label_index = 0
    /\ row = 0
    /\ col = 0
    /\ pc = "idle"
    /\ cells = <<>>
    /\ pages = <<>>
    /\ page = <<>>
    /\ NoSideCall
    /\ SettingsNew
    /\ DatabaseNew

FlagNext ==
    \/ SetConfigBetweenCalls
    \/ GenerateLabel
    \/ GeneratePimacoSheet
    \/ SheetEnter
    \/ SheetWhile
    \/ SheetDraw
    \/ SheetBreak
    \/ SheetEndFor
    \/ SheetSave

SpecFlag == FlagInit /\ [][FlagNext]_vars

\* a generation call is the last thing that happened, and it is over
GenerationOver ==
    /\ LayoutCallOver
    /\ op \in {"generate_label", "generate_pimaco_sheet"}
    /\ result.err = "none"

\* the labels of the call whose postal code can be encoded
Encodable == {k \in 1..Len(LabelsOfCall) : NumDigits(LabelsOfCall[k].endereco.cep) >= 8}

\* C27: in every layout (thermal, sheet cell, envelope) the barcode of a
\* label is drawn if and only if the include_barcode flag of the call and
\* the key incluir_cepnet of the config, as the last set_config left it
\* (true where the key is missing), are both true: with the key false no
\* generation call draws a barcode, whatever the call asks for.
C27_BarcodeFlag ==
    GenerationOver =>
        IF include_barcode
           /\ (IF "incluir_cepnet" \in DOMAIN config THEN config["incluir_cepnet"]
               ELSE TRUE)
        THEN Len(Barcodes(AllOps)) = Cardinality(Encodable)
        ELSE Barcodes(AllOps) = <<>>

\* set_config has switched the key off and a later call that asked for the
\* barcode has drawn none
C27_Witness ==
    /\ GenerationOver
    /\ include_barcode
    /\ ~config["incluir_cepnet"]
    /\ Barcodes(AllOps) = <<>>
    /\ Len(AllOps) >= 4

\* the key was switched off and on again, and the barcode is back
FlagBackOn ==
    /\ GenerationOver
    /\ include_barcode
    /\ config["incluir_cepnet"]
    /\ config["resolucao_dpi"] = 600
    /\ tipo = "envelope_c5"
    /\ Len(Barcodes(AllOps)) = 1

(***************************************************************************)
(* The sender handlers of the API (main.py): the stored sender and the     *)
(* sender of the generator                                                 *)
(*                                                                         *)
(* gerar_preview hands the stored dict itself to the generator; every      *)
(* handler that changes that dict in place binds self.remetente anew in    *)
(* its next statement, so the sharing never shows in a label.              *)
(***************************************************************************)

\* the body of PUT /api/settings/remetente: all the fields or a few
SenderBodies ==
    {SenderLoja, [telefone |-> <<"5", "5", "5">>],
     [nome |-> <<"F", "i", "l", "i", "a", "l">>]}

\* what the sender handlers leave alone
SenderHandlerFrame ==
    UNCHANGED <<cep, endereco, nome, config, tipo, include_barcode, include_remetente,
                sheetVars, canvasVars, envVars, threadVars, dbVars>>

\* main.py:175-190
AtualizarConfiguracao ==
    \E section \in {"remetente", "nope"}, data \in SenderBodies :
        /\ op' = "atualizar_configuracao"
        /\ args' = [section |-> section, data |-> data]
        /\ IF section \notin DOMAIN settings
           THEN /\ result' = Raise("HTTPException")
                /\ Leaves(Heap)
                /\ UNCHANGED remetente
           ELSE /\ result' = Return(TRUE)
                /\ _save_settings(StoreInPlace(Heap, section,
                       dict_update(settings[section], data)))
                /\ remetente' = data
        /\ SenderHandlerFrame

\* main.py:701-706
SalvarRemetente ==
    \E data \in {SenderLoja, SenderFilial} :
        /\ op' = "salvar_remetente"
        /\ args' = [data |-> data]
        /\ result' = Return(TRUE)
        /\ _save_settings(StoreInPlace(Heap, "remetente",
               dict_update(settings["remetente"], data)))
        /\ remetente' = data
        /\ SenderHandlerFrame

\* main.py:208-214
ResetarConfiguracao ==
    \E section \in {"remetente", "nope"} :
        /\ op' = "resetar_configuracao"
        /\ args' = [section |-> section]
        /\ IF section \in DOMAIN DEFAULT_SETTINGS
           THEN /\ result' = Return(TRUE)
                /\ _save_settings(Rebind(Heap, section, DEFAULT_SETTINGS[section]))
           ELSE /\ result' = Raise("HTTPException")
                /\ Leaves(Heap)
        /\ UNCHANGED remetente
        /\ SenderHandlerFrame

\* main.py:549-561: the stored sender is handed to the generator if it has
\* a name, and the label is made
GerarPreview ==
    \E incluir_remetente \in BOOLEAN, t \in {"thermal_100x80", "envelope_dl"} :
        LET stored == settings["remetente"]
            used == IF incluir_remetente /\ remetente_set(stored)
                       /\ Truthy(Get(stored, "nome", None))
                    THEN stored ELSE remetente
            r == IF t = "thermal_100x80"
                 THEN generate_thermal_label(nome, endereco, t, include_barcode,
                                             incluir_remetente, used, config, TRUE)
                 ELSE generate_envelope(nome, endereco, t, include_barcode,
                                        incluir_remetente, used, config, TRUE)
        IN  /\ op' = "gerar_preview"
            /\ args' = [tipo_etiqueta |-> LabelTypeChars[t]]
            /\ remetente' = used
            /\ include_remetente' = incluir_remetente
            /\ tipo' = t
            /\ pages' = IF r.err = "none" THEN <<r.value>> ELSE <<>>
            /\ page' = <<>>
            /\ result' = IF r.err = "none" THEN Return(pages') ELSE r
            /\ UNCHANGED <<cep, endereco, nome, config, include_barcode, sheetVars,
                           envVars, threadVars, settingsVars, dbVars>>

SyncInit ==
    /\ op = "init"
    /\ result = Return(<<>>)
    /\ cep = <<>>
    /\ endereco \in {e \in LabelEnderecos : e.cep = Cep71010050}
    /\ nome = <<"A", "n", "a">>
    /\ GeneratorNew
    /\ NoLayoutCall
    /\ NoSideCall
    /\ SettingsNew
    /\ DatabaseNew

SyncNext ==
    \/ AtualizarConfiguracao
    \/ SalvarRemetente
    \/ ResetarConfiguracao
    \/ GerarPreview

SpecSync == SyncInit /\ [][SyncNext]_vars

\* the sender has no name: the handlers take such a sender for none
Nameless(rem) == ~remetente_set(rem) \/ ~Truthy(Get(rem, "nome", None))

\* the two senders give the same lines on a label, or neither has a name
SameSender(used, stored) ==
    \/ Nameless(used) /\ Nameless(stored)
    \/ /\ remetente_set(used)
       /\ _format_remetente_correios(used) = _format_remetente_correios(stored)

\* C29: after any sequence of PUT /api/settings/remetente with all or a
\* few fields, POST /api/remetente and POST /api/settings/reset/remetente,
\* a label generated with incluir_remetente carries the sender that
\* system_settings holds at that time; after a reset no label carries the
\* sender of before.
C29_SenderInSync ==
    (op = "gerar_preview" /\ include_remetente /\ result.err = "none") =>
        SameSender(remetente, settings["remetente"])

\* a label with the sender that was stored before the reset
StaleSenderPrinted ==
    /\ op = "gerar_preview"
    /\ include_remetente
    /\ tipo = "envelope_dl"
    /\ Nameless(settings["remetente"])
    /\ remetente = SenderLoja
    /\ Len(OfKind(OpsOfCall, {"line"})) = 1

\* a label made after PUT with a few fields, with the stored sender
SyncedAfterPartial ==
    /\ op = "gerar_preview"
    /\ include_remetente
    /\ remetente = settings["remetente"]
    /\ "telefone" \in DOMAIN remetente
    /\ remetente["telefone"] = <<"5", "5", "5">>
    /\ remetente["nome"] = <<"L", "o", "j", "a">>

(***************************************************************************)
(* Clients and addresses (main.py): the principal flag                     *)
(*                                                                         *)
(* A row of enderecos is kept as its cliente_id and its flags principal    *)
(* and ativo; its id is its place in the table.                            *)
(***************************************************************************)

\* the most clients and the most address rows followed
MaxClientes == 2

MaxEnderecos == 3

\* the principal flags of the enderecos list of a ClienteCreate body
EnderecoLists == UNION {[1..n -> BOOLEAN] : n \in 0..2}

\* the fields set in an EnderecoUpdate body (model_dump(exclude_unset=True))
EnderecoUpdates ==
    {[principal |-> TRUE], [principal |-> FALSE], [ativo |-> FALSE], EmptyDict}

\* what the handlers of clients and addresses leave alone
DbFrame ==
    UNCHANGED <<cep, endereco, nome, genVars, callVars, sheetVars, canvasVars,
                envVars, threadVars, settingsVars>>

\* main.py:363-367 and 383-388: the bulk update that clears the flag of
\* the rows of the client that have it, the row keep left out
clear_principal(rows, cliente_id, keep) ==
    [i \in 1..Len(rows) |->
        IF rows[i].cliente_id = cliente_id /\ i # keep /\ rows[i].principal
        THEN [rows[i] EXCEPT !.principal = FALSE]
        ELSE rows[i]]

\* main.py:290-313: each address is stored with the flag of the body
CriarCliente ==
    \E enderecos \in EnderecoLists :
        /\ db.clientes < MaxClientes
        /\ Len(db.enderecos) + Len(enderecos) <= MaxEnderecos
        /\ op' = "criar_cliente"
        /\ args' = [enderecos |-> enderecos]
        /\ result' = Return(db.clientes + 1)
        /\ db' = [clientes |-> db.clientes + 1,
                  enderecos |-> db.enderecos \o
                      [i \in 1..Len(enderecos) |->
                          [cliente_id |-> db.clientes + 1,
                           principal |-> enderecos[i], ativo |-> TRUE]]]
        /\ DbFrame

\* main.py:355-372
CriarEndereco ==
    \E cliente_id \in 1..MaxClientes, principal \in BOOLEAN :
        /\ Len(db.enderecos) < MaxEnderecos
        /\ op' = "criar_endereco"
        /\ args' = [cliente_id |-> cliente_id, principal |-> principal]
        /\ IF cliente_id > db.clientes
           THEN /\ result' = Raise("HTTPException")
                /\ UNCHANGED db
           ELSE /\ result' = Return(Len(db.enderecos) + 1)
                /\ db' = [db EXCEPT !.enderecos =
                            Append(IF principal
                                   THEN clear_principal(db.enderecos, cliente_id, 0)
                                   ELSE db.enderecos,
                                   [cliente_id |-> cliente_id,
                                    principal |-> principal, ativo |-> TRUE])]
        /\ DbFrame

\* main.py:375-395
AtualizarEndereco ==
    \E endereco_id \in 1..MaxEnderecos, update_data \in EnderecoUpdates :
        /\ op' = "atualizar_endereco"
        /\ args' = [endereco_id |-> endereco_id, update_data |-> update_data]
        /\ IF endereco_id > Len(db.enderecos)
           THEN /\ result' = Raise("HTTPException")
                /\ UNCHANGED db
           ELSE LET others == IF Get(update_data, "principal", FALSE)
                              THEN clear_principal(db.enderecos,
                                       db.enderecos[endereco_id].cliente_id,
                                       endereco_id)
                              ELSE db.enderecos
                IN  /\ result' = Return(endereco_id)
                    /\ db' = [db EXCEPT !.enderecos =
                                [others EXCEPT ![endereco_id] =
                                    dict_update(others[endereco_id], update_data)]]
        /\ DbFrame

\* main.py:398-407: a soft delete
ExcluirEndereco ==
    \E endereco_id \in 1..MaxEnderecos :
        /\ op' = "excluir_endereco"
        /\ args' = [endereco_id |-> endereco_id]
        /\ IF endereco_id > Len(db.enderecos)
           THEN /\ result' = Raise("HTTPException")
                /\ UNCHANGED db
           ELSE /\ result' = Return(endereco_id)
                /\ db' = [db EXCEPT !.enderecos[endereco_id].ativo = FALSE]
        /\ DbFrame

DbInit ==
    /\ op = "init"
    /\ result = Return(<<>>)
    /\ cep = <<>>
    /\ endereco = EmptyDict
    /\ nome = <<>>
    /\ GeneratorNew
    /\ NoLayoutCall
    /\ NoSideCall
    /\ SettingsNew
    /\ DatabaseNew

DbNext ==
    \/ CriarCliente
    \/ CriarEndereco
    \/ AtualizarEndereco
    \/ ExcluirEndereco

SpecDb == DbInit /\ [][DbNext]_vars

\* the rows of the client that are flagged principal
PrincipalRows(cliente_id) ==
    {i \in 1..Len(db.enderecos) :
        db.enderecos[i].cliente_id = cliente_id /\ db.enderecos[i].principal}

\* C30: after any sequence of criar_cliente (with any list of addresses),
\* criar_endereco, atualizar_endereco and excluir_endereco, every client
\* has at most one address flagged principal.
C30_OnePrincipal ==
    \A cliente_id \in 1..db.clientes : Cardinality(PrincipalRows(cliente_id)) <= 1

\* criar_endereco and atualizar_endereco have moved the flag from one
\* address of a client to another
FlagMoved ==
    /\ op \in {"criar_endereco", "atualizar_endereco"}
    /\ result.err = "none"
    /\ Len(db.enderecos) >= 2
    /\ db.enderecos[1].cliente_id = db.enderecos[2].cliente_id
    /\ ~db.enderecos[1].principal
    /\ db.enderecos[2].principal

====
